---- MODULE Spec2Model ----
(***************************************************************************)
(* Official/addon theme catalogue reconciliation: the Record Store         *)
(* (FileManager), the Reconciler (DataSynchronizer, DataManager), the      *)
(* Entry Builder and the Batch Session (the BatchProcessor variants).      *)
(*                                                                         *)
(* Strings are atoms.  A Python dict is a function from field names to     *)
(* values; a Python list is a sequence.  A JSON document on disk is a      *)
(* sequence of tokens <<kind, payload>>, written by json_dump and read     *)
(* back by json_load.                                                      *)
(***************************************************************************)
EXTENDS Integers, Sequences, FiniteSets, TLC

VARIABLES impl, files, backups, clock, sync, sess, out

vars == <<impl, files, backups, clock, sync, sess, out>>

(***************************************************************************)
(* Bounds of the model.                                                    *)
(***************************************************************************)
MaxOfficial == 2
MaxAddon == 2
MaxClock == 2

(***************************************************************************)
(* Python values.                                                          *)
(***************************************************************************)
None == "None"

dict_get(d, k, default) == IF k \in DOMAIN d THEN d[k] ELSE default

\* `x in list` for a list of strings
InList(x, xs) == \E i \in DOMAIN xs : xs[i] = x

\* the value of F at e, with e evaluated once
Bind(e, F(_)) == CHOOSE r \in {F(v) : v \in {e}} : TRUE

Range(s) == {s[i] : i \in DOMAIN s}

SeqsUpTo(S, n) == UNION {[1..k -> S] : k \in 0..n}

(***************************************************************************)
(* The records of the catalogue.                                           *)
(***************************************************************************)
Repos == {"a/b", "c/d", "x/y"}

OfficialRecord(repo, name, screenshot, modes) ==
    [repo |-> repo, name |-> name, author |-> "X", screenshot |-> screenshot, modes |-> modes]

ThemeAB == OfficialRecord("a/b", "Theme B", "s.png", <<"dark">>)

ThemeCD == OfficialRecord("c/d", "Theme D", "t.png", <<"dark", "light">>)

\* a second record with the repo of ThemeAB
ThemeAB2 == OfficialRecord("a/b", "Theme B again", "u.png", <<"light">>)

\* a record that lacks its repo field
ThemeNoRepo == [name |-> "Theme N", author |-> "X", screenshot |-> "n.png", modes |-> <<"light">>]

AddonRecord(repo, main, side, tags) ==
    ("repo" :> repo) @@ ("screenshot-main" :> main) @@ ("screenshots-side" :> side) @@ ("tags" :> tags)

AddonAB == AddonRecord("a/b", "s.png", <<>>, <<"dark", "minimalistic">>)

AddonCD == AddonRecord("c/d", "t.png", <<"side.png">>, <<"dark">>)

AddonXY == AddonRecord("x/y", "o.png", <<>>, <<>>)

AddonNoRepo == ("screenshot-main" :> "n.png") @@ ("screenshots-side" :> <<>>) @@ ("tags" :> <<>>)

(***************************************************************************)
(* JSON text.  json.dump writes a list of dicts; the fields of a dict are  *)
(* written in insertion order, which for the records of this program is    *)
(* the order of FieldOrder.  String-valued and list-valued fields are      *)
(* told apart by the field (Python tells them apart by isinstance).        *)
(***************************************************************************)
FieldOrder ==
    <<"repo", "name", "author", "screenshot", "modes",
      "screenshot-main", "screenshots-side", "tags",
      "_author", "_created_at", "_merged_at">>

ListFields == {"modes", "screenshots-side", "tags"}

Tok(kind) == <<kind, "">>

StrTok(s) == <<"str", s>>

RECURSIVE dump_items(_)
\* the comma-separated items of a list or dict: items is a sequence of token sequences
dump_items(items) ==
    IF Len(items) = 0 THEN <<>>
    ELSE IF Len(items) = 1 THEN items[1]
    ELSE items[1] \o <<Tok(",")>> \o dump_items(Tail(items))

dump_str(s) == <<StrTok(s)>>

dump_str_list(xs) ==
    <<Tok("[")>> \o dump_items([i \in DOMAIN xs |-> dump_str(xs[i])]) \o <<Tok("]")>>

dump_field(d, k) ==
    <<StrTok(k), Tok(":")>> \o (IF k \in ListFields THEN dump_str_list(d[k]) ELSE dump_str(d[k]))

\* dump_dict that leaves out the list-valued fields that are empty
dump_dict_skip_empty(d) ==
    LET keys == SelectSeq(FieldOrder, LAMBDA k : k \in DOMAIN d /\ ~(k \in ListFields /\ d[k] = <<>>))
    IN  <<Tok("{")>> \o dump_items([i \in DOMAIN keys |-> dump_field(d, keys[i])]) \o <<Tok("}")>>

dump_dict(d) ==
    LET keys == SelectSeq(FieldOrder, LAMBDA k : k \in DOMAIN d)
    IN  <<Tok("{")>> \o dump_items([i \in DOMAIN keys |-> dump_field(d, keys[i])]) \o <<Tok("}")>>

json_dump(data) ==
    <<Tok("[")>> \o dump_items([i \in DOMAIN data |-> dump_dict(data[i])]) \o <<Tok("]")>>

\* json.dump of the addon data of the DataManager: one JSON object that maps
\* each repo to its record
dump_keyed(data) ==
    <<Tok("{")>>
    \o dump_items([i \in DOMAIN data |-> <<StrTok(data[i]["repo"]), Tok(":")>> \o dump_dict(data[i])])
    \o <<Tok("}")>>

\* a text cut off before its last token, as an interrupted write leaves it
truncated(text) == SubSeq(text, 1, Len(text) - 1)

ParseFail == [ok |-> FALSE, kind |-> "error", val |-> <<>>, next |-> 0]

RECURSIVE parse_value(_, _), parse_elems(_, _, _), parse_members(_, _, _)
parse_value(text, i) ==
    IF i > Len(text) THEN ParseFail
    ELSE IF text[i][1] = "str"
         THEN [ok |-> TRUE, kind |-> "str", val |-> text[i][2], next |-> i + 1]
    ELSE IF text[i][1] = "["
         THEN IF i + 1 <= Len(text) /\ text[i + 1][1] = "]"
              THEN [ok |-> TRUE, kind |-> "list", val |-> <<>>, next |-> i + 2]
              ELSE parse_elems(text, i + 1, <<>>)
    ELSE IF text[i][1] = "{"
         THEN IF i + 1 <= Len(text) /\ text[i + 1][1] = "}"
              THEN [ok |-> TRUE, kind |-> "dict", val |-> <<>>, next |-> i + 2]
              ELSE parse_members(text, i + 1, <<>>)
    ELSE ParseFail

parse_elems(text, i, acc) ==
    Bind(parse_value(text, i), LAMBDA v :
        IF ~v.ok \/ v.next > Len(text) THEN ParseFail
        ELSE IF text[v.next][1] = ","
             THEN parse_elems(text, v.next + 1, Append(acc, v.val))
        ELSE IF text[v.next][1] = "]"
             THEN [ok |-> TRUE, kind |-> "list", val |-> Append(acc, v.val), next |-> v.next + 1]
        ELSE ParseFail)

parse_members(text, i, acc) ==
    IF i + 1 > Len(text) \/ text[i][1] # "str" \/ text[i + 1][1] # ":" THEN ParseFail
    ELSE Bind(parse_value(text, i + 2), LAMBDA v :
             IF ~v.ok \/ v.next > Len(text) THEN ParseFail
             \* a repeated key keeps the last value
             ELSE IF text[v.next][1] = ","
                  THEN parse_members(text, v.next + 1, (text[i][2] :> v.val) @@ acc)
             ELSE IF text[v.next][1] = "}"
                  THEN [ok |-> TRUE, kind |-> "dict", val |-> (text[i][2] :> v.val) @@ acc,
                        next |-> v.next + 1]
             ELSE ParseFail)

json_load(text) ==
    Bind(parse_value(text, 1), LAMBDA r :
        IF r.ok /\ r.next = Len(text) + 1
        THEN [ok |-> TRUE, kind |-> r.kind, val |-> r.val]
        ELSE [ok |-> FALSE, kind |-> "error", val |-> <<>>])

(***************************************************************************)
(* Files.  A path either does not exist or holds a JSON text.              *)
(***************************************************************************)
NoFile == [exists |-> FALSE, text |-> <<>>]

FileOf(text) == [exists |-> TRUE, text |-> text]

FileNames == {"official", "addon", "addon.json.backup", "user", "macros"}

\* backups/{stem}_{YYYYMMDD_HHMMSS}_pre_save.json: one name per stem and second
BackupNames == {"addon", "user"} \X (0..MaxClock)

(***************************************************************************)
(* FileManager (pythonThemeTools/file_manager.py).                         *)
(***************************************************************************)
\* the value load_json_data returns, with its Python type
load_json_data_result(f) ==
    IF ~f.exists THEN [kind |-> "list", val |-> <<>>]
    ELSE Bind(json_load(f.text), LAMBDA data :
             IF ~data.ok THEN [kind |-> "list", val |-> <<>>]
             ELSE IF data.kind # "list" THEN [kind |-> "list", val |-> <<>>]
             ELSE [kind |-> data.kind, val |-> data.val])

load_json_data(f) == load_json_data_result(f).val

\* the file is absent, or json.load gives a list
parses_as_list(f) == f.exists => (json_load(f.text).ok /\ json_load(f.text).kind = "list")

\* what the operating system does to one save: whether shutil.copy2 succeeds,
\* and whether open(path, 'w') and the write succeed
IOOutcomes == [copy : BOOLEAN, write : {"ok", "open_fails", "write_fails"}]

IOAllOk == [copy |-> TRUE, write |-> "ok"]

\* timestamp = datetime.now().strftime("%Y%m%d_%H%M%S"): the clock in whole seconds
backup_json_files(fs, bk, path, now, io) ==
    IF ~fs[path].exists THEN [backups |-> bk, result |-> FALSE]
    ELSE IF io.copy
         THEN [backups |-> [bk EXCEPT ![<<path, now>>] = fs[path]], result |-> TRUE]
         ELSE [backups |-> bk, result |-> FALSE]

save_json_data(fs, bk, path, data, create_backup, now, io) ==
    Bind(IF create_backup /\ fs[path].exists
         THEN backup_json_files(fs, bk, path, now, io).backups
         ELSE bk, LAMBDA b :
        IF io.write = "ok"
        THEN [files |-> [fs EXCEPT ![path] = FileOf(json_dump(data))], backups |-> b, ok |-> TRUE]
        ELSE IF io.write = "open_fails"
        THEN [files |-> fs, backups |-> b, ok |-> FALSE]
        \* open(path, 'w') has truncated the file when the write fails
        ELSE [files |-> [fs EXCEPT ![path] = FileOf(<<>>)], backups |-> b, ok |-> FALSE])

(***************************************************************************)
(* DataSynchronizer (pythonThemeTools/data_synchronizer.py).  The cache    *)
(* fields _official_data and _addon_data are None until loaded.            *)
(***************************************************************************)
NotLoaded == [loaded |-> FALSE, kind |-> "none", data |-> <<>>]

\* the cache holds whatever json.load returned: a list, or a dict when the
\* document is a JSON object
LoadedAs(kind, data) == [loaded |-> TRUE, kind |-> kind, data |-> data]

Loaded(data) == LoadedAs("list", data)

DataSynchronizer == [official |-> NotLoaded, addon |-> NotLoaded]

\* json.load of a path, [] when the path does not exist
load_or_empty(f) ==
    IF f.exists THEN json_load(f.text) ELSE [ok |-> TRUE, kind |-> "list", val |-> <<>>]

load_json_files(s, fs) ==
    Bind(load_or_empty(fs["official"]), LAMBDA o :
        IF ~o.ok THEN [sync |-> s, ret |-> FALSE]
        ELSE Bind(load_or_empty(fs["addon"]), LAMBDA a :
            IF ~a.ok THEN [sync |-> [s EXCEPT !.official = LoadedAs(o.kind, o.val)], ret |-> FALSE]
            ELSE [sync |-> [official |-> LoadedAs(o.kind, o.val), addon |-> LoadedAs(a.kind, a.val)],
                  ret |-> TRUE]))

\* `for theme in data` over a cache: the dicts of a list; the keys of a dict,
\* which are strings
themes_of(c) == IF c.kind = "list" THEN c.data ELSE <<>>

\* `'repo' in theme` for a key of a dict is a substring test, and
\* theme['repo'] on the key that passes it raises TypeError
repo_lookup_raises(c) == c.kind = "dict" /\ "repo" \in DOMAIN c.data

\* theme.get('repo') on a key of a dict raises AttributeError
get_raises(c) == c.kind = "dict" /\ DOMAIN c.data # {}

\* len(data)
len(c) == IF c.kind = "list" THEN Len(c.data) ELSE Cardinality(DOMAIN c.data)

RECURSIVE collect_repos(_, _)
\* for theme in data: if 'repo' in theme: repos.add(theme['repo'])
collect_repos(data, repos) ==
    IF data = <<>> THEN repos
    ELSE collect_repos(Tail(data),
                       IF "repo" \in DOMAIN Head(data) THEN repos \cup {Head(data)["repo"]} ELSE repos)

RECURSIVE select_entries_reversed(_, _, _)
\* select_entries with entries.insert(0, theme) in place of entries.append(theme)
select_entries_reversed(data, repos, entries) ==
    IF data = <<>> THEN entries
    ELSE select_entries_reversed(Tail(data), repos,
                                 IF dict_get(Head(data), "repo", None) \in repos
                                 THEN <<Head(data)>> \o entries ELSE entries)

RECURSIVE select_entries(_, _, _)
\* for theme in data: if theme.get('repo') in repos: entries.append(theme)
select_entries(data, repos, entries) ==
    IF data = <<>> THEN entries
    ELSE select_entries(Tail(data), repos,
                        IF dict_get(Head(data), "repo", None) \in repos
                        THEN Append(entries, Head(data)) ELSE entries)

\* iterating a cache that is still None raises TypeError
get_official_repos(s, fs) ==
    Bind(IF ~s.official.loaded THEN load_json_files(s, fs).sync ELSE s, LAMBDA s1 :
        IF ~s1.official.loaded \/ repo_lookup_raises(s1.official)
        THEN [sync |-> s1, raised |-> TRUE, val |-> {}]
        ELSE [sync |-> s1, raised |-> FALSE, val |-> collect_repos(themes_of(s1.official), {})])

get_addon_repos(s, fs) ==
    Bind(IF ~s.addon.loaded THEN load_json_files(s, fs).sync ELSE s, LAMBDA s1 :
        IF ~s1.addon.loaded \/ repo_lookup_raises(s1.addon)
        THEN [sync |-> s1, raised |-> TRUE, val |-> {}]
        ELSE [sync |-> s1, raised |-> FALSE, val |-> collect_repos(themes_of(s1.addon), {})])

\* find_missing_addon_entries with the difference taken the wrong way round
find_missing_addon_entries_swapped(s, fs) ==
    Bind(get_official_repos(s, fs), LAMBDA o :
    Bind(get_addon_repos(o.sync, fs), LAMBDA a :
    Bind(a.val \ o.val, LAMBDA missing_repos :
        IF o.raised THEN [sync |-> o.sync, raised |-> TRUE, val |-> <<>>]
        ELSE IF a.raised \/ get_raises(a.sync.official)
        THEN [sync |-> a.sync, raised |-> TRUE, val |-> <<>>]
        ELSE [sync |-> a.sync, raised |-> FALSE,
              val |-> select_entries(themes_of(a.sync.official), missing_repos, <<>>)])))

find_missing_addon_entries(s, fs) ==
    Bind(get_official_repos(s, fs), LAMBDA o :
    Bind(get_addon_repos(o.sync, fs), LAMBDA a :
    Bind(o.val \ a.val, LAMBDA missing_repos :
        IF o.raised THEN [sync |-> o.sync, raised |-> TRUE, val |-> <<>>]
        ELSE IF a.raised \/ get_raises(a.sync.official)
        THEN [sync |-> a.sync, raised |-> TRUE, val |-> <<>>]
        ELSE [sync |-> a.sync, raised |-> FALSE,
              val |-> select_entries(themes_of(a.sync.official), missing_repos, <<>>)])))

\* find_orphaned_addon_entries that forgets to subtract the official repos
find_orphaned_addon_entries_all(s, fs) ==
    Bind(get_official_repos(s, fs), LAMBDA o :
    Bind(get_addon_repos(o.sync, fs), LAMBDA a :
    Bind(a.val, LAMBDA orphaned_repos :
        IF o.raised THEN [sync |-> o.sync, raised |-> TRUE, val |-> <<>>]
        ELSE IF a.raised \/ get_raises(a.sync.addon)
        THEN [sync |-> a.sync, raised |-> TRUE, val |-> <<>>]
        ELSE [sync |-> a.sync, raised |-> FALSE,
              val |-> select_entries(themes_of(a.sync.addon), orphaned_repos, <<>>)])))

find_orphaned_addon_entries(s, fs) ==
    Bind(get_official_repos(s, fs), LAMBDA o :
    Bind(get_addon_repos(o.sync, fs), LAMBDA a :
    Bind(a.val \ o.val, LAMBDA orphaned_repos :
        IF o.raised THEN [sync |-> o.sync, raised |-> TRUE, val |-> <<>>]
        ELSE IF a.raised \/ get_raises(a.sync.addon)
        THEN [sync |-> a.sync, raised |-> TRUE, val |-> <<>>]
        ELSE [sync |-> a.sync, raised |-> FALSE,
              val |-> select_entries(themes_of(a.sync.addon), orphaned_repos, <<>>)])))

(***************************************************************************)
(* Python floats, kept exact: a quotient of integers in lowest terms.      *)
(***************************************************************************)
RECURSIVE Gcd(_, _)
Gcd(a, b) == IF b = 0 THEN a ELSE Gcd(b, a % b)

Rat(n, d) == [num |-> n \div Gcd(n, d), den |-> d \div Gcd(n, d)]

float_div(a, b) == Rat(a, b)

float_mul(r, k) == Rat(r.num * k, r.den)

\* compare_json_files dividing the number of addon repos, not of the shared ones
compare_json_files_addon_count(s, fs) ==
    Bind(load_json_files(s, fs), LAMBDA l :
        IF ~l.ret
        THEN [sync |-> l.sync, raised |-> FALSE, val |-> [error |-> "Failed to load JSON files"]]
        ELSE
    Bind(get_official_repos(l.sync, fs), LAMBDA o :
    Bind(get_addon_repos(l.sync, fs), LAMBDA a :
    Bind(find_missing_addon_entries(l.sync, fs), LAMBDA missing_entries :
    Bind(find_orphaned_addon_entries(l.sync, fs), LAMBDA orphaned_entries :
        IF o.raised \/ a.raised \/ missing_entries.raised \/ orphaned_entries.raised
        THEN [sync |-> l.sync, raised |-> TRUE, val |-> <<>>]
        ELSE [sync |-> l.sync, raised |-> FALSE,
              val |-> [official_count |-> len(l.sync.official),
                       addon_count |-> len(l.sync.addon),
                       official_repos_count |-> Cardinality(o.val),
                       addon_repos_count |-> Cardinality(a.val),
                       missing_addon_entries |-> missing_entries.val,
                       orphaned_addon_entries |-> orphaned_entries.val,
                       missing_count |-> Len(missing_entries.val),
                       orphaned_count |-> Len(orphaned_entries.val),
                       sync_percentage |->
                           IF o.val # {}
                           THEN float_mul(float_div(Cardinality(a.val), Cardinality(o.val)), 100)
                           ELSE Rat(0, 1)]])))))

compare_json_files(s, fs) ==
    Bind(load_json_files(s, fs), LAMBDA l :
        IF ~l.ret
        THEN [sync |-> l.sync, raised |-> FALSE, val |-> [error |-> "Failed to load JSON files"]]
        ELSE
    Bind(get_official_repos(l.sync, fs), LAMBDA o :
    Bind(get_addon_repos(l.sync, fs), LAMBDA a :
    Bind(find_missing_addon_entries(l.sync, fs), LAMBDA missing_entries :
    Bind(find_orphaned_addon_entries(l.sync, fs), LAMBDA orphaned_entries :
        IF o.raised \/ a.raised \/ missing_entries.raised \/ orphaned_entries.raised
        THEN [sync |-> l.sync, raised |-> TRUE, val |-> <<>>]
        ELSE [sync |-> l.sync, raised |-> FALSE,
              val |-> [official_count |-> len(l.sync.official),
                       addon_count |-> len(l.sync.addon),
                       official_repos_count |-> Cardinality(o.val),
                       addon_repos_count |-> Cardinality(a.val),
                       missing_addon_entries |-> missing_entries.val,
                       orphaned_addon_entries |-> orphaned_entries.val,
                       missing_count |-> Len(missing_entries.val),
                       orphaned_count |-> Len(orphaned_entries.val),
                       sync_percentage |->
                           IF o.val # {}
                           THEN float_mul(float_div(Cardinality(a.val \cap o.val), Cardinality(o.val)), 100)
                           ELSE Rat(0, 1)]])))))

(***************************************************************************)
(* BatchProcessor._save_addon_data of pythonThemeTools/batch_processor.py: *)
(* the old file is renamed to <addon>.json.backup, the new one written and *)
(* the synchronizer's cache replaced.  io.copy stands for the rename.      *)
(***************************************************************************)
save_addon_data_tools(fs, s, data, io) ==
    Bind(IF fs["addon"].exists /\ io.copy
         THEN [fs EXCEPT !["addon.json.backup"] = fs["addon"], !["addon"] = NoFile]
         ELSE fs, LAMBDA renamed :
        IF fs["addon"].exists /\ ~io.copy THEN [files |-> fs, sync |-> s, ok |-> FALSE]
        ELSE IF io.write = "open_fails" THEN [files |-> renamed, sync |-> s, ok |-> FALSE]
        ELSE IF io.write = "write_fails"
        THEN [files |-> [renamed EXCEPT !["addon"] = FileOf(<<>>)], sync |-> s, ok |-> FALSE]
        ELSE [files |-> [renamed EXCEPT !["addon"] = FileOf(json_dump(data))],
              sync |-> [s EXCEPT !.addon = Loaded(data)], ok |-> TRUE])

(***************************************************************************)
(* DataManager (Old/batch_processor/core/data_manager.py): the addon data  *)
(* is a dict from repo to a record with an optional completion status.     *)
(***************************************************************************)
\* {theme['repo'] for theme in official_data}: KeyError on a record without repo
all_have_repo(official_data) == \A i \in DOMAIN official_data : "repo" \in DOMAIN official_data[i]

detect_new_themes(official_data, addon_data) ==
    IF ~all_have_repo(official_data) THEN [raised |-> TRUE, val |-> <<>>]
    ELSE LET official_repos == {official_data[i]["repo"] : i \in DOMAIN official_data}
             addon_repos == DOMAIN addon_data
             new_repos == official_repos \ addon_repos
         IN  [raised |-> FALSE,
              val |-> SelectSeq(official_data, LAMBDA theme : theme["repo"] \in new_repos)]

completion_status(data) == dict_get(dict_get(data, "metadata", <<>>), "completion_status", None)

\* returns list(deleted_repos): the repos in no particular order, kept as a set
detect_deleted_themes(official_data, addon_data) ==
    IF ~all_have_repo(official_data) THEN [raised |-> TRUE, val |-> {}]
    ELSE LET official_repos == {official_data[i]["repo"] : i \in DOMAIN official_data}
             active_addon_repos ==
                 {repo \in DOMAIN addon_data : completion_status(addon_data[repo]) # "deleted"}
         IN  [raised |-> FALSE, val |-> active_addon_repos \ official_repos]

(***************************************************************************)
(* The session of one BatchProcessor: where the operator is (pc), the      *)
(* missing records being worked through, the in-memory addon list and the  *)
(* tally.                                                                  *)
(***************************************************************************)
ZeroTally == [processed |-> 0, skipped |-> 0, errors |-> 0]

IdleSession ==
    [pc |-> "menu", mode |-> "none", missing |-> <<>>, idx |-> 0,
     addon_data |-> <<>>, aliased |-> FALSE, created |-> <<>>, results |-> ZeroTally,
     saved |-> FALSE, write_failed |-> FALSE, closed |-> FALSE, runs |-> 0,
     last |-> "none", exc |-> "none", load_failed |-> FALSE, saves |-> 0]

NoOut == [op |-> "none", arg |-> <<>>, raised |-> FALSE, val |-> <<>>]

NoBackups == [n \in BackupNames |-> NoFile]

(***************************************************************************)
(* SpecRecon: the Reconciler on bounded official and addon files.          *)
(***************************************************************************)
ReconOfficialRecords == {ThemeAB, ThemeCD, ThemeAB2, ThemeNoRepo}

ReconAddonRecords == {AddonAB, AddonCD, AddonXY, AddonNoRepo}

DictEntries ==
    {[metadata |-> [completion_status |-> "deleted"]],
     [metadata |-> [completion_status |-> "complete"]],
     [tags |-> <<>>]}

AddonDicts == UNION {[S -> DictEntries] : S \in SUBSET {"a/b", "x/y"}}

\* impl names the class under test: the DataSynchronizer reads both files, the
\* DataManager is handed the official list and an addon dict
InitRecon ==
    /\ impl \in {"synchronizer", "data_manager"}
    /\ \E O \in SeqsUpTo(ReconOfficialRecords, MaxOfficial), A \in SeqsUpTo(ReconAddonRecords, MaxAddon) :
          \E addonExists \in BOOLEAN :
             files = [n \in FileNames |->
                        IF n = "official" THEN FileOf(json_dump(O))
                        ELSE IF n = "addon" /\ impl = "synchronizer" /\ (addonExists \/ A # <<>>)
                             THEN FileOf(json_dump(A))
                        ELSE NoFile]
    /\ backups = NoBackups
    /\ clock = 0
    /\ sync = DataSynchronizer
    /\ sess = IdleSession
    /\ out = NoOut

CallFindMissing ==
    /\ impl = "synchronizer"
    /\ \E r \in {find_missing_addon_entries(sync, files)} :
          /\ sync' = r.sync
          /\ out' = [op |-> "find_missing", arg |-> <<>>, raised |-> r.raised, val |-> r.val]
    /\ UNCHANGED <<impl, files, backups, clock, sess>>

CallFindOrphaned ==
    /\ impl = "synchronizer"
    /\ \E r \in {find_orphaned_addon_entries(sync, files)} :
          /\ sync' = r.sync
          /\ out' = [op |-> "find_orphaned", arg |-> <<>>, raised |-> r.raised, val |-> r.val]
    /\ UNCHANGED <<impl, files, backups, clock, sess>>

CallCompareJsonFiles ==
    /\ impl = "synchronizer"
    /\ \E r \in {compare_json_files(sync, files)} :
          /\ sync' = r.sync
          /\ out' = [op |-> "compare", arg |-> <<>>, raised |-> r.raised, val |-> r.val]
    /\ UNCHANGED <<impl, files, backups, clock, sess>>

CallDetectNewThemes ==
    /\ impl = "data_manager"
    /\ \E D \in AddonDicts :
          \E r \in {detect_new_themes(load_json_data(files["official"]), D)} :
             out' = [op |-> "detect_new", arg |-> D, raised |-> r.raised, val |-> r.val]
    /\ UNCHANGED <<impl, files, backups, clock, sync, sess>>

CallDetectDeletedThemes ==
    /\ impl = "data_manager"
    /\ \E D \in AddonDicts :
          \E r \in {detect_deleted_themes(load_json_data(files["official"]), D)} :
             out' = [op |-> "detect_deleted", arg |-> D, raised |-> r.raised, val |-> r.val]
    /\ UNCHANGED <<impl, files, backups, clock, sync, sess>>

NextRecon ==
    \/ CallFindMissing
    \/ CallFindOrphaned
    \/ CallCompareJsonFiles
    \/ CallDetectNewThemes
    \/ CallDetectDeletedThemes

SpecRecon == InitRecon /\ [][NextRecon]_vars

\* the official and addon lists the Reconciler is given
OfficialList == load_json_data(files["official"])

AddonList == load_json_data(files["addon"])

\* K_o, K_a: the repo values of the records that carry a repo field
RepoKeys(L) == {L[i]["repo"] : i \in {j \in DOMAIN L : "repo" \in DOMAIN L[j]}}

Keyed(t) == "repo" \in DOMAIN t

NoRepeatedRepo(L) ==
    \A i, j \in DOMAIN L : (Keyed(L[i]) /\ Keyed(L[j]) /\ L[i]["repo"] = L[j]["repo"]) => i = j

\* C1: find_missing_addon_entries returns exactly the official records whose
\* repo is in K_o minus K_a, in official order, and nothing else.
C1_FindMissingIsOrderedDifference ==
    out.op = "find_missing" =>
        /\ ~out.raised
        /\ out.val = SelectSeq(OfficialList,
                               LAMBDA t : Keyed(t) /\ t["repo"] \in (RepoKeys(OfficialList) \ RepoKeys(AddonList)))

\* a call that returned one of two official records, the other being in the addon list
C1_Witness ==
    /\ out.op = "find_missing"
    /\ Len(OfficialList) = 2
    /\ Len(out.val) = 1
    /\ RepoKeys(OfficialList) \cap RepoKeys(AddonList) # {}

\* C7 as stated: the number of records returned plus |K_o /\ K_a| equals |K_o|,
\* also for lists in which a repo occurs more than once.
C7_CountIdentityOnRecords ==
    out.op = "find_missing" =>
        Len(out.val) + Cardinality(RepoKeys(OfficialList) \cap RepoKeys(AddonList))
            = Cardinality(RepoKeys(OfficialList))

\* C7 amended: the number of distinct repos among the returned records plus
\* |K_o /\ K_a| equals |K_o|; the number of returned records satisfies the
\* identity when no repo occurs more than once in the official list.
C7_CountIdentityOnRepos ==
    out.op = "find_missing" =>
        /\ Cardinality(RepoKeys(out.val)) + Cardinality(RepoKeys(OfficialList) \cap RepoKeys(AddonList))
               = Cardinality(RepoKeys(OfficialList))
        /\ NoRepeatedRepo(OfficialList) =>
               Len(out.val) + Cardinality(RepoKeys(OfficialList) \cap RepoKeys(AddonList))
                   = Cardinality(RepoKeys(OfficialList))

\* a call on an official list with a repeated repo that is missing from the addon list
C7_Witness ==
    /\ out.op = "find_missing"
    /\ ~NoRepeatedRepo(OfficialList)
    /\ Len(out.val) = 2
    /\ Cardinality(RepoKeys(out.val)) = 1

\* C8: sync_percentage = |K_a /\ K_o| / |K_o| * 100, and 0 when K_o is empty;
\* official a/b, c/d with addon a/b gives 50.
C8_SyncPercentage ==
    out.op = "compare" =>
        LET Ko == RepoKeys(OfficialList)
            Ka == RepoKeys(AddonList)
            p  == out.val.sync_percentage
        IN  /\ "error" \notin DOMAIN out.val
            /\ p.den > 0
            /\ Ko = {} => p = [num |-> 0, den |-> 1]
            /\ Ko # {} => p.num * Cardinality(Ko) = 100 * Cardinality(Ka \cap Ko) * p.den
            /\ (OfficialList = <<ThemeAB, ThemeCD>> /\ AddonList = <<AddonAB>>) => p = [num |-> 50, den |-> 1]

\* the scenario of the specification: two official records, one of them in the addon list
C8_Witness ==
    /\ out.op = "compare"
    /\ OfficialList = <<ThemeAB, ThemeCD>>
    /\ AddonList = <<AddonAB>>
    /\ out.val.sync_percentage = [num |-> 50, den |-> 1]

MarkedDeleted(data) ==
    /\ "metadata" \in DOMAIN data
    /\ "completion_status" \in DOMAIN data["metadata"]
    /\ data["metadata"]["completion_status"] = "deleted"

MaxStore == 2

EmptyDict == <<>>

AddonByAuthor == AddonRecord("c/d", "", <<"one.png", "two.png">>, <<>>) @@ ("_author" :> "me")

StoreRecords == {AddonAB, AddonByAuthor, AddonNoRepo, EmptyDict}

InitRoundTrip ==
    /\ impl = "file_manager"
    /\ \E L \in SeqsUpTo(StoreRecords, 1), exists \in BOOLEAN :
          files = [n \in FileNames |-> IF n = "addon" /\ exists THEN FileOf(json_dump(L)) ELSE NoFile]
    /\ backups = NoBackups
    /\ clock = 0
    /\ sync = DataSynchronizer
    /\ sess = IdleSession
    /\ \E L \in SeqsUpTo(StoreRecords, MaxStore) :
          out = [op |-> "input", arg |-> L, raised |-> FALSE, val |-> <<>>]

\* save_json_data(location, L, create_backup)
Save(L) ==
    /\ impl = "file_manager"
    /\ \E create_backup \in BOOLEAN, io \in IOOutcomes :
          \E r \in {save_json_data(files, backups, "addon", L, create_backup, clock, io)} :
             /\ files' = r.files
             /\ backups' = r.backups
             /\ out' = [op |-> "save", arg |-> L, raised |-> FALSE,
                        val |-> [ok |-> r.ok, backup |-> create_backup, io |-> io]]
    /\ UNCHANGED <<impl, clock, sync, sess>>

\* load_json_data(location); the op records whether it follows a successful save
Load ==
    /\ out' = [op |-> IF out.op = "save" /\ out.val.ok THEN "load_after_save" ELSE "load",
               arg |-> out.arg, raised |-> FALSE, val |-> load_json_data(files["addon"])]
    /\ UNCHANGED <<impl, files, backups, clock, sync, sess>>

\* the list drawn as input is saved
SaveInput ==
    /\ out.op = "input"
    /\ Save(out.arg)

NextRoundTrip ==
    \/ SaveInput
    \/ Load

SpecRoundTrip == InitRoundTrip /\ [][NextRoundTrip]_vars

\* C6: save_json_data(location, L) followed by load_json_data(location) returns
\* a list equal to L, element order and field contents included.
C6_RoundTrip == out.op = "load_after_save" => out.val = out.arg

\* a round trip of two records, one with side screenshots and an empty tag list
C6_Witness ==
    /\ out.op = "load_after_save"
    /\ out.val = <<AddonByAuthor, AddonAB>>

(***************************************************************************)
(* SpecStore: saves of the addon store while the clock advances.           *)
(***************************************************************************)
StoreLists == {<<>>, <<AddonAB>>, <<AddonAB, AddonCD>>}

\* the addon file at the start: absent, a list, a list cut off, or the
\* repo-keyed object the DataManager writes
StoreFiles ==
    {NoFile} \cup {FileOf(json_dump(L)) : L \in StoreLists}
    \cup {FileOf(truncated(json_dump(<<AddonAB>>))), FileOf(dump_keyed(<<AddonAB>>))}

InitStore ==
    /\ impl \in {"file_manager", "tools"}
    /\ \E f \in StoreFiles : files = [n \in FileNames |-> IF n = "addon" THEN f ELSE NoFile]
    /\ backups = NoBackups
    /\ clock = 0
    /\ sync = DataSynchronizer
    /\ sess = IdleSession
    /\ out = NoOut

SaveStoreList == \E L \in StoreLists : Save(L)

\* BatchProcessor._save_addon_data(data) of pythonThemeTools
SaveAddonDataTools ==
    /\ impl = "tools"
    /\ \E L \in StoreLists, io \in IOOutcomes :
          \E r \in {save_addon_data_tools(files, sync, L, io)} :
             /\ files' = r.files
             /\ sync' = r.sync
             /\ out' = [op |-> "save", arg |-> L, raised |-> FALSE,
                        val |-> [ok |-> r.ok, backup |-> TRUE, io |-> io]]
    /\ UNCHANGED <<impl, backups, clock, sess>>

\* a second of wall-clock time passes
Tick ==
    /\ clock < MaxClock
    /\ clock' = clock + 1
    /\ UNCHANGED <<impl, files, backups, sync, sess, out>>

NextStore ==
    \/ SaveStoreList
    \/ SaveAddonDataTools
    \/ Load
    \/ Tick

SpecStore == InitStore /\ [][NextStore]_vars

\* the step made one Backup Artifact that did not exist before, holding pre
OneNewBackupArtifact(pre) ==
    \/ /\ files'["addon.json.backup"] = files["addon.json.backup"]
       /\ \E n \in BackupNames :
             /\ ~backups[n].exists
             /\ backups'[n] = pre
             /\ \A m \in BackupNames \ {n} : backups'[m] = backups[m]
    \/ /\ backups' = backups
       /\ ~files["addon.json.backup"].exists
       /\ files'["addon.json.backup"] = pre

\* C5: every save with backup enabled on an existing file, however closely the
\* saves follow each other, leaves exactly one Backup Artifact that did not exist
\* before, holding the content the file had before the call (stated for the
\* saves in which every file operation succeeds).
C5_OneNewBackupPerSave ==
    [][(/\ out'.op = "save"
        /\ out' # out
        /\ out'.val.backup
        /\ out'.val.io = IOAllOk
        /\ files["addon"].exists) => OneNewBackupArtifact(files["addon"])]_vars

\* C18: load_json_data fails with a parse error, and does not return the
\* empty list, whenever the location exists and its content is not valid JSON
\* or is not a JSON array; the empty list comes back without an error only
\* for a location that does not exist (or that holds the empty array).
C18_LoadFailsOnBadContent ==
    out.op \in {"load", "load_after_save"} =>
        /\ ~parses_as_list(files["addon"]) => out.raised
        /\ (~out.raised /\ out.val = <<>>) =>
              (~files["addon"].exists \/ files["addon"].text = json_dump(<<>>))

(***************************************************************************)
(* Automatic mode of the Entry Builder: _create_minimal_addon_entry in its *)
(* three versions.  Strings compare by code point; StringOrder lists the   *)
(* tag strings of the model in that order.                                 *)
(***************************************************************************)
StringOrder ==
    <<"Zen", "blue", "colorful", "dark", "dark_and_light", "exit", "gaming", "light", "m",
      "minimalistic", "modern", "notm", "productivity", "retro", "simple", "skip", "zen">>

StrRank(t) == CHOOSE i \in DOMAIN StringOrder : StringOrder[i] = t

RECURSIVE insert_sorted(_, _)
\* t put after the last element of the sorted list xs that is not greater
insert_sorted(t, xs) ==
    IF xs = <<>> THEN <<t>>
    ELSE IF StrRank(t) < StrRank(Head(xs)) THEN <<t>> \o xs
    ELSE <<Head(xs)>> \o insert_sorted(t, Tail(xs))

RECURSIVE sorted(_)
\* sorted(list) of strings, duplicates kept
sorted(xs) == IF xs = <<>> THEN <<>> ELSE insert_sorted(xs[Len(xs)], sorted(SubSeq(xs, 1, Len(xs) - 1)))

\* the three `if ... in modes: auto_tags.append(...)` statements
append_mode_tags(auto_tags, modes) ==
    auto_tags
    \o (IF InList("dark", modes) THEN <<"dark">> ELSE <<>>)
    \o (IF InList("light", modes) THEN <<"light">> ELSE <<>>)
    \o (IF InList("dark", modes) /\ InList("light", modes) THEN <<"dark_and_light">> ELSE <<>>)

\* Old/integrated_batch_processor_complete.py
create_minimal_addon_entry_integrated(official_entry) ==
    AddonRecord(dict_get(official_entry, "repo", None),
                dict_get(official_entry, "screenshot", ""),
                <<>>,
                sorted(append_mode_tags(<<"minimalistic">>, dict_get(official_entry, "modes", <<>>))))

\* Old/batch_processor (2).py
create_minimal_addon_entry_modes_only(official_entry) ==
    AddonRecord(dict_get(official_entry, "repo", None),
                dict_get(official_entry, "screenshot", ""),
                <<>>,
                append_mode_tags(<<>>, dict_get(official_entry, "modes", <<>>)))

\* pythonThemeTools/batch_processor.py
create_minimal_addon_entry_tools(official_entry) ==
    AddonRecord(dict_get(official_entry, "repo", None),
                dict_get(official_entry, "screenshot", ""),
                <<>>,
                <<>>)

create_minimal_addon_entry(variant, official_entry) ==
    CASE variant = "integrated" -> create_minimal_addon_entry_integrated(official_entry)
      [] variant = "modes_only" -> create_minimal_addon_entry_modes_only(official_entry)
      [] variant = "tools"      -> create_minimal_addon_entry_tools(official_entry)

(***************************************************************************)
(* SpecBuilder: automatic mode applied to one official record.             *)
(***************************************************************************)
MaxModes == 2

OptField(k, present, v) == IF present THEN k :> v ELSE <<>>

OfficialEntries ==
    {OptField("repo", hasRepo, repo) @@ OptField("screenshot", hasShot, "s.png")
        @@ OptField("modes", hasModes, modes) @@ [name |-> "Theme", author |-> "X"] :
        hasRepo \in BOOLEAN, repo \in {"a/b", "c/d"}, hasShot \in BOOLEAN, hasModes \in BOOLEAN,
        modes \in SeqsUpTo({"dark", "light"}, MaxModes)}

InitBuilder ==
    /\ impl \in {"integrated", "modes_only", "tools"}
    /\ files = [n \in FileNames |-> NoFile]
    /\ backups = NoBackups
    /\ clock = 0
    /\ sync = DataSynchronizer
    /\ sess = IdleSession
    /\ \E e \in OfficialEntries : out = [op |-> "input", arg |-> e, raised |-> FALSE, val |-> <<>>]

CreateMinimalAddonEntry(variant) ==
    /\ impl = variant
    /\ out.op = "input"
    /\ out' = [op |-> "create_minimal", arg |-> out.arg, raised |-> FALSE,
               val |-> create_minimal_addon_entry(variant, out.arg)]
    /\ UNCHANGED <<impl, files, backups, clock, sync, sess>>

CreateMinimalIntegrated == CreateMinimalAddonEntry("integrated")

CreateMinimalModesOnly == CreateMinimalAddonEntry("modes_only")

CreateMinimalTools == CreateMinimalAddonEntry("tools")

NextBuilder ==
    \/ CreateMinimalIntegrated
    \/ CreateMinimalModesOnly
    \/ CreateMinimalTools

SpecBuilder == InitBuilder /\ [][NextBuilder]_vars

\* the tags of the Tag default policy for a list of modes, as a sorted
\* duplicate-free list
DefaultPolicyTags(modes) ==
    SelectSeq(StringOrder, LAMBDA t :
        \/ t = "minimalistic"
        \/ t = "dark" /\ InList("dark", modes)
        \/ t = "light" /\ InList("light", modes)
        \/ t = "dark_and_light" /\ InList("dark", modes) /\ InList("light", modes))

\* C10: for every official record that has a repo, automatic mode produces
\* {repo, screenshot-main = the official screenshot, screenshots-side = [],
\* tags = the sorted duplicate-free list of dark / light / dark_and_light by
\* the modes, plus minimalistic}.
C10_AutomaticModeRecord ==
    (out.op = "create_minimal" /\ "repo" \in DOMAIN out.arg) =>
        out.val = AddonRecord(out.arg["repo"],
                              dict_get(out.arg, "screenshot", ""),
                              <<>>,
                              DefaultPolicyTags(dict_get(out.arg, "modes", <<>>)))

(***************************************************************************)
(* The interactive Entry Builder.  What the operator types for one record  *)
(* is a record of answers: tags is the list of the non-empty stripped      *)
(* parts of the comma-separated tag line, side the URLs typed before the   *)
(* empty line.  The builder returns an entry or None.                      *)
(***************************************************************************)
Entry(e) == [some |-> TRUE, entry |-> e]

NoEntry == [some |-> FALSE, entry |-> <<>>]

\* default_macros of _load_tag_macros
DefaultMacros ==
    ("m" :> "minimalistic") @@ ("d" :> "dark") @@ ("l" :> "light") @@ ("p" :> "productivity")
    @@ ("g" :> "gaming") @@ ("c" :> "colorful") @@ ("s" :> "simple") @@ ("md" :> "modern")
    @@ ("ret" :> "retro")

\* tags.append(self.tag_macros.get(stripped, stripped)) for each part
expand_tags(parts, tag_macros) == [i \in DOMAIN parts |-> dict_get(tag_macros, parts[i], parts[i])]

RECURSIVE remove_first(_, _)
\* list.remove(x): the first occurrence only
remove_first(xs, x) ==
    IF xs = <<>> THEN <<>>
    ELSE IF Head(xs) = x THEN Tail(xs)
    ELSE <<Head(xs)>> \o remove_first(Tail(xs), x)

RECURSIVE list_of_set(_)
list_of_set(S) ==
    IF S = {} THEN <<>> ELSE LET x == CHOOSE x \in S : TRUE IN <<x>> \o list_of_set(S \ {x})

\* sorted(set(xs))
sorted_set(xs) == sorted(list_of_set(Range(xs)))

\* batch_processor.py: tags first, 'skip' and 'exit' leave, notm is taken out
interactive_entry_builder_root(official_entry, answers, tag_macros) ==
    IF answers.tags \in {<<"exit">>, <<"skip">>} THEN NoEntry
    ELSE IF answers.main = "exit" \/ InList("exit", answers.side) THEN NoEntry
    ELSE IF answers.confirm # "y" THEN NoEntry
    ELSE LET tags == expand_tags(answers.tags, tag_macros)
             default_tags ==
                 append_mode_tags(<<>>, dict_get(official_entry, "modes", <<>>))
                 \o (IF ~InList("notm", tags) THEN <<"minimalistic">> ELSE <<>>)
             kept == IF InList("notm", tags) THEN remove_first(tags, "notm") ELSE tags
         IN  Entry(AddonRecord(dict_get(official_entry, "repo", None),
                               IF answers.main # "" THEN answers.main
                               ELSE dict_get(official_entry, "screenshot", ""),
                               answers.side,
                               sorted_set(kept \o default_tags)))

\* Old/integrated_batch_processor_complete.py: screenshots first, only 'exit'
\* leaves, notm stays among the tags
interactive_entry_builder_integrated(official_entry, answers, tag_macros) ==
    IF answers.main = "exit" \/ InList("exit", answers.side) THEN NoEntry
    ELSE IF answers.tags = <<"exit">> THEN NoEntry
    ELSE IF answers.confirm # "y" THEN NoEntry
    ELSE LET tags == expand_tags(answers.tags, tag_macros)
             default_tags ==
                 append_mode_tags(<<>>, dict_get(official_entry, "modes", <<>>))
                 \o (IF ~InList("notm", tags) THEN <<"minimalistic">> ELSE <<>>)
         IN  Entry(AddonRecord(dict_get(official_entry, "repo", None),
                               IF answers.main # "" THEN answers.main
                               ELSE dict_get(official_entry, "screenshot", ""),
                               answers.side,
                               sorted_set(tags \o default_tags)))

\* pythonThemeTools/batch_processor.py: asks whether to create, tags as typed
interactive_entry_builder_tools(official_entry, answers) ==
    IF answers.create # "y" THEN NoEntry
    ELSE IF answers.confirm # "y" THEN NoEntry
    ELSE Entry(AddonRecord(dict_get(official_entry, "repo", None),
                           IF answers.main # "" THEN answers.main
                           ELSE dict_get(official_entry, "screenshot", ""),
                           answers.side,
                           answers.tags))

\* Old/batch_processor (2).py: tags first, only 'exit' leaves, no confirmation
\* is asked, notm stays among the tags
interactive_entry_builder_modes_only(official_entry, answers, tag_macros) ==
    IF answers.tags = <<"exit">> THEN NoEntry
    ELSE IF answers.main = "exit" \/ InList("exit", answers.side) THEN NoEntry
    ELSE LET tags == expand_tags(answers.tags, tag_macros)
             default_tags ==
                 append_mode_tags(<<>>, dict_get(official_entry, "modes", <<>>))
                 \o (IF InList("notm", tags) THEN <<>> ELSE <<"minimalistic">>)
         IN  Entry(AddonRecord(dict_get(official_entry, "repo", None),
                               IF answers.main # "" THEN answers.main
                               ELSE dict_get(official_entry, "screenshot", ""),
                               answers.side,
                               sorted_set(tags \o default_tags)))

interactive_entry_builder(variant, official_entry, answers) ==
    CASE variant = "root"       -> interactive_entry_builder_root(official_entry, answers, DefaultMacros)
      [] variant = "modes_only" -> interactive_entry_builder_modes_only(official_entry, answers, DefaultMacros)
      [] variant = "integrated" -> interactive_entry_builder_integrated(official_entry, answers, DefaultMacros)
      [] variant = "tools"      -> interactive_entry_builder_tools(official_entry, answers)

(***************************************************************************)
(* SpecTags: the Entry Builder, interactive or automatic, applied to one   *)
(* official record and one line of tags.                                   *)
(***************************************************************************)
MaxTags == 2

\* what the operator types between the commas of the tag line
TagTokens == {"notm", "m", "blue", "Zen"}

TagInputs ==
    {[entry |-> [repo |-> "a/b", name |-> "Theme", author |-> "X", screenshot |-> "s.png",
                 modes |-> modes],
      answers |-> [create |-> "y", tags |-> tags, main |-> "", side |-> <<>>, confirm |-> "y"]] :
        modes \in SeqsUpTo({"dark", "light"}, MaxModes), tags \in SeqsUpTo(TagTokens, MaxTags)}

InitTags ==
    /\ impl \in {"root", "integrated", "modes_only", "tools"}
    /\ files = [n \in FileNames |-> NoFile]
    /\ backups = NoBackups
    /\ clock = 0
    /\ sync = DataSynchronizer
    /\ sess = IdleSession
    /\ \E x \in TagInputs : out = [op |-> "input", arg |-> x, raised |-> FALSE, val |-> NoEntry]

\* interactive mode on the drawn record, with the drawn answers
InteractiveEntryBuilder ==
    /\ out.op = "input"
    /\ out' = [out EXCEPT !.op = "interactive",
                          !.val = interactive_entry_builder(impl, out.arg.entry, out.arg.answers)]
    /\ UNCHANGED <<impl, files, backups, clock, sync, sess>>

\* automatic mode on the drawn record
AutomaticEntryBuilder ==
    /\ out.op = "input"
    /\ impl \in {"integrated", "modes_only", "tools"}
    /\ out' = [out EXCEPT !.op = "automatic",
                          !.val = Entry(create_minimal_addon_entry(impl, out.arg.entry))]
    /\ UNCHANGED <<impl, files, backups, clock, sync, sess>>

NextTags ==
    \/ InteractiveEntryBuilder
    \/ AutomaticEntryBuilder

SpecTags == InitTags /\ [][NextTags]_vars

\* C11: in interactive mode, for any tag input that contains the token notm
\* (once or several times), the tags of the record produced contain neither
\* notm nor minimalistic.
C11_NotmSuppressed ==
    (out.op = "interactive" /\ InList("notm", out.arg.answers.tags) /\ out.val.some) =>
        /\ ~InList("notm", out.val.entry["tags"])
        /\ ~InList("minimalistic", out.val.entry["tags"])

\* str.lower() on the tag strings of the model
lower(t) == IF t = "Zen" THEN "zen" ELSE t

\* C12: the tags of every addon record a builder produces, automatic or
\* interactive, for any tag input, are duplicate-free, case-normalized and in
\* ascending alphabetical order.
C12_TagsNormalised ==
    (out.op \in {"interactive", "automatic"} /\ out.val.some) =>
        LET tags == out.val.entry["tags"]
        IN  /\ \A i \in DOMAIN tags : lower(tags[i]) = tags[i]
            /\ \A i, j \in DOMAIN tags : i < j => StrRank(tags[i]) < StrRank(tags[j])

(***************************************************************************)
(* SpecMacros: the Tag Macro Table a BatchProcessor is constructed with,   *)
(* over a tag macro file.                                                  *)
(***************************************************************************)
MacroKeys == <<"d", "m", "z">>

MacroValues == {"dark", "minimalistic", "Zen"}

\* the tables of string -> string pairs a macro file can hold
MacroTables ==
    UNION {[K -> MacroValues] : K \in SUBSET Range(MacroKeys)}

\* json.dump of a table of string -> string pairs
dump_macros(table) ==
    LET keys == SelectSeq(MacroKeys, LAMBDA k : k \in DOMAIN table)
    IN  <<Tok("{")>>
        \o dump_items([i \in DOMAIN keys |-> <<StrTok(keys[i]), Tok(":"), StrTok(table[keys[i]])>>])
        \o <<Tok("}")>>

MacroFiles ==
    {NoFile, FileOf(json_dump(<<AddonAB>>)), FileOf(truncated(dump_macros([k \in {"m"} |-> "dark"])))}
    \cup {FileOf(dump_macros(t)) : t \in MacroTables}

\* _load_tag_macros(macros_path) with a path given
load_tag_macros(f) ==
    IF ~f.exists THEN DefaultMacros
    ELSE Bind(load_json_data_result(f), LAMBDA macros_data :
            IF macros_data.kind = "dict" THEN macros_data.val ELSE DefaultMacros)

InitMacros ==
    /\ impl \in {"root", "integrated"}
    /\ \E f \in MacroFiles : files = [n \in FileNames |-> IF n = "macros" THEN f ELSE NoFile]
    /\ backups = NoBackups
    /\ clock = 0
    /\ sync = DataSynchronizer
    /\ sess = IdleSession
    /\ out = NoOut

\* BatchProcessor.__init__: self.tag_macros = self._load_tag_macros(macros_path)
LoadTagMacros ==
    /\ out.op = "none"
    /\ out' = [op |-> "load_tag_macros", arg |-> <<>>, raised |-> FALSE,
               val |-> load_tag_macros(files["macros"])]
    /\ UNCHANGED <<impl, files, backups, clock, sync, sess>>

NextMacros == LoadTagMacros

SpecMacros == InitMacros /\ [][NextMacros]_vars

\* the file holds a JSON object of string -> string pairs
HoldsMacroTable(f) ==
    f.exists /\ json_load(f.text).ok /\ json_load(f.text).kind = "dict"

\* C20: the Tag Macro Table at the start of a session is the content of the
\* tag macro file whenever that file exists and holds an object of
\* string -> string pairs, and is the built-in table only when the file is
\* absent.
C20_MacroTableFromFile ==
    out.op = "load_tag_macros" =>
        /\ HoldsMacroTable(files["macros"]) => out.val = json_load(files["macros"].text).val
        /\ out.val = DefaultMacros => ~files["macros"].exists

(***************************************************************************)
(* _parse_range_selection.  The range line is the empty line, "all", or a  *)
(* list of comma-separated parts: a range "a-b", a single number "n", or   *)
(* text that int() rejects.                                                *)
(***************************************************************************)
RangeLine(text, parts) == [text |-> text, parts |-> parts]

RangePart(a, b) == [kind |-> "range", start |-> a, end |-> b]

SinglePart(n) == [kind |-> "single", start |-> n, end |-> n]

BadPart == [kind |-> "bad", start |-> 0, end |-> 0]

\* part_indices without the conversion of a single number to a 0-based index
part_indices_one_based(part, n) ==
    IF part.kind = "range"
    THEN LET start == IF part.start - 1 < 0 THEN 0 ELSE part.start - 1
             end   == IF part.end - 1 >= n THEN n - 1 ELSE part.end - 1
         IN  start .. end
    ELSE IF 0 <= part.start /\ part.start < n THEN {part.start} ELSE {}

\* the 0-based indices one part adds to selected_indices
part_indices(part, n) ==
    IF part.kind = "range"
    THEN LET start == IF part.start - 1 < 0 THEN 0 ELSE part.start - 1
             end   == IF part.end - 1 >= n THEN n - 1 ELSE part.end - 1
         IN  start .. end
    ELSE IF 0 <= part.start - 1 /\ part.start - 1 < n THEN {part.start - 1} ELSE {}

parse_range_selection(range_input, all_entries) ==
    IF range_input.text \in {"", "all"} THEN all_entries
    ELSE IF \E i \in DOMAIN range_input.parts : range_input.parts[i].kind = "bad" THEN <<>>
    ELSE LET selected_indices ==
                 UNION {part_indices(range_input.parts[i], Len(all_entries)) :
                           i \in DOMAIN range_input.parts}
             picked == SelectSeq([i \in DOMAIN all_entries |-> i],
                                 LAMBDA i : (i - 1) \in selected_indices)
         IN  [k \in DOMAIN picked |-> all_entries[picked[k]]]

(***************************************************************************)
(* The batch session.  A world is the part of the state a handler works    *)
(* on: [files, backups, sync, sess, out].  sess holds the locals of the running *)
(* session: missing (the records to go through), idx (the record the next  *)
(* prompt is about), addon_data (the list being extended), results.        *)
(***************************************************************************)
Tally(results, k) == [results EXCEPT ![k] = @ + 1]

\* what a find_missing_addon_entries call returned, and whether the session
\* before it had saved a record for every record it had found missing
FoundMissing(se, fm) ==
    [op |-> "find_missing", arg |-> [closed |-> se.closed], raised |-> fm.raised, val |-> fm.val]

\* BatchProcessor.load_addon_data; in pythonThemeTools, _load_addon_data, which
\* hands out the synchronizer's own list when that is not empty
\* a dict that came out of the cache is handed out as it is: data is then
\* left empty and the session reads the dict through the cache it aliases.
\* failed: the file was there and what was read from it is not a list
load_addon_data(variant, s, fs) ==
    IF variant = "tools"
    THEN Bind(IF ~s.addon.loaded \/ len(s.addon) = 0 THEN load_json_files(s, fs).sync ELSE s,
              LAMBDA s1 : [sync |-> s1, data |-> themes_of(s1.addon),
                           aliased |-> s1.addon.loaded /\ len(s1.addon) # 0,
                           failed |-> \/ s1.addon.kind = "dict"
                                      \/ /\ ~s.addon.loaded \/ len(s.addon) = 0
                                         /\ ~parses_as_list(fs["addon"])])
    ELSE [sync |-> s, data |-> load_json_data(fs["addon"]), aliased |-> FALSE,
          failed |-> ~parses_as_list(fs["addon"])]

\* BatchProcessor.save_addon_data; in pythonThemeTools, _save_addon_data
save_addon_data(variant, w, data, now, io) ==
    IF variant = "tools"
    THEN Bind(save_addon_data_tools(w.files, w.sync, data, io), LAMBDA r :
            [files |-> r.files, backups |-> w.backups, sync |-> r.sync, ok |-> r.ok])
    ELSE Bind(save_json_data(w.files, w.backups, "addon", data, TRUE, now, io), LAMBDA r :
            [files |-> r.files, backups |-> r.backups, sync |-> w.sync, ok |-> r.ok])

\* BatchProcessor.save_user_addon_data
save_user_addon_data(w, data, now, io) ==
    Bind(save_json_data(w.files, w.backups, "user", data, TRUE, now, io), LAMBDA r :
        [files |-> r.files, backups |-> r.backups, sync |-> w.sync, ok |-> r.ok])

\* the session function has returned: its locals are gone, the results stay
Returned(se) ==
    [se EXCEPT !.pc = "menu", !.idx = 0, !.addon_data = <<>>, !.aliased = FALSE, !.created = <<>>]

\* the statements after the loop: one save if anything was processed
finish_session(variant, w, now, io) ==
    IF w.sess.results.processed > 0
    THEN Bind(IF w.sess.mode = "range"
              THEN save_user_addon_data(w, w.sess.addon_data, now, io)
              ELSE save_addon_data(variant, w, w.sess.addon_data, now, io), LAMBDA r :
            [files |-> r.files, backups |-> r.backups, sync |-> r.sync, out |-> w.out,
             sess |-> [Returned(w.sess) EXCEPT
                         !.saved = r.ok,
                         !.saves = @ + 1,
                         !.write_failed = @ \/ ~r.ok,
                         !.closed = r.ok /\ w.sess.mode # "range"
                                    /\ w.sess.results.processed = Len(w.sess.missing),
                         !.results = IF r.ok THEN @ ELSE Tally(@, "errors")]])
    ELSE [w EXCEPT !.sess = Returned(w.sess)]

RECURSIVE skip_existing(_)
\* range mode: `if repo in existing_repos: skipped += 1; continue`
skip_existing(se) ==
    IF se.mode = "range" /\ se.idx <= Len(se.missing)
       /\ dict_get(se.missing[se.idx], "repo", "unknown") \in collect_repos(se.addon_data, {})
    THEN skip_existing([se EXCEPT !.idx = @ + 1, !.results = Tally(@, "skipped")])
    ELSE se

\* on to the next prompt, or out of the loop
next_record(variant, w, now, io) ==
    Bind(skip_existing([w.sess EXCEPT !.idx = @ + 1]), LAMBDA se :
        IF se.idx > Len(se.missing)
        THEN finish_session(variant, [w EXCEPT !.sess = se], now, io)
        ELSE [w EXCEPT !.sess = se])

\* addon_data.append(addon_entry) when addon_data is the dict of the cache:
\* AttributeError
append_raises(variant, w) == variant = "tools" /\ w.sess.aliased /\ w.sync.addon.kind = "dict"

\* the handler that forgets results["errors"] += 1
except_exception_uncounted(w, what) ==
    [w EXCEPT !.sess.last = what]

\* except Exception as e: results["errors"] += 1, and on to the next turn
except_exception(w, what) ==
    [w EXCEPT !.sess.results = Tally(@, "errors"), !.sess.last = what]

\* one turn of the loop: the builder is run on missing[idx]; fails stands for
\* an Exception raised inside it
build_entry(variant, w, answers, fails, now, io_step, io) ==
    Bind(IF fails THEN NoEntry
         ELSE interactive_entry_builder(variant, w.sess.missing[w.sess.idx], answers), LAMBDA b :
    Bind(IF w.sess.mode = "range" /\ b.some
         THEN ("_author" :> "me") @@ ("_created_at" :> now) @@ b.entry
         ELSE b.entry, LAMBDA addon_entry :
    Bind(IF fails THEN except_exception(w, "raised")
         ELSE IF ~b.some THEN [w EXCEPT !.sess.results = Tally(@, "skipped"), !.sess.last = "skipped"]
         ELSE IF append_raises(variant, w) THEN except_exception(w, "append_raised")
         ELSE Bind([w EXCEPT !.sess.addon_data = Append(@, addon_entry),
                             !.sess.created = Append(@, addon_entry),
                             !.sess.results = Tally(@, "processed"),
                             !.sess.last = "created",
                             !.sync.addon = IF w.sess.aliased
                                            THEN Loaded(Append(w.sess.addon_data, addon_entry))
                                            ELSE @], LAMBDA w1 :
                 IF w.sess.mode = "range"
                 THEN Bind(save_user_addon_data(w1, w1.sess.addon_data, now, io_step), LAMBDA r :
                         [w1 EXCEPT !.files = r.files, !.backups = r.backups,
                                    !.sess.saves = @ + 1,
                                    !.sess.write_failed = @ \/ ~r.ok,
                                    !.sess.last = IF r.ok THEN "created" ELSE "save_failed"])
                 ELSE w1), LAMBDA w2 :
        next_record(variant, w2, now, io))))

\* automatic mode: the whole loop without a prompt
build_all_minimal(variant, w) ==
    IF append_raises(variant, w)
    THEN [w EXCEPT !.sess.results.errors = Len(w.sess.missing),
                   !.sess.idx = Len(w.sess.missing) + 1,
                   !.sess.last = "append_raised"]
    ELSE
    Bind([i \in DOMAIN w.sess.missing |-> create_minimal_addon_entry(variant, w.sess.missing[i])],
         LAMBDA entries :
        [w EXCEPT !.sess.addon_data = @ \o entries,
                  !.sess.created = entries,
                  !.sess.results.processed = Len(entries),
                  !.sess.idx = Len(entries) + 1,
                  !.sess.last = "created",
                  !.sync.addon = IF w.sess.aliased THEN Loaded(w.sess.addon_data \o entries) ELSE @])

\* the early return that reports a record it never saw
no_missing_entries_counted(w, fresh) ==
    [w EXCEPT !.sess = [fresh EXCEPT !.results = Tally(@, "skipped")]]

\* if not missing_entries: return {"processed": 0, "skipped": 0, "errors": 0}
no_missing_entries(w, fresh) ==
    [w EXCEPT !.sess = fresh]

\* process_missing_entries / process_missing_entries_interactive up to the
\* first prompt; in automatic mode, to the end
process_missing_entries(variant, mode, w0, now, io) ==
    Bind(find_missing_addon_entries(w0.sync, w0.files), LAMBDA fm :
    Bind([w0 EXCEPT !.sync = fm.sync, !.out = FoundMissing(w0.sess, fm)], LAMBDA w :
    Bind([IdleSession EXCEPT !.mode = mode, !.runs = w.sess.runs + 1], LAMBDA fresh :
        IF fm.raised
        THEN [w EXCEPT !.sess = IF variant = "tools"
                                THEN [fresh EXCEPT !.pc = "exited", !.exc = "TypeError"]
                                ELSE [fresh EXCEPT !.results = Tally(@, "errors")]]
        ELSE IF fm.val = <<>> THEN no_missing_entries(w, fresh)
        ELSE Bind(load_addon_data(variant, fm.sync, w.files), LAMBDA la :
             Bind([w EXCEPT !.sync = la.sync,
                            !.sess = [fresh EXCEPT !.pc = "building", !.missing = fm.val, !.idx = 1,
                                                   !.addon_data = la.data, !.aliased = la.aliased,
                                                   !.load_failed = la.failed]],
                  LAMBDA w1 :
                 IF mode = "auto"
                 THEN finish_session(variant, build_all_minimal(variant, w1), now, io)
                 ELSE w1)))))

\* process_missing_entries_range up to the first builder prompt
process_missing_entries_range(w0, range_input, author, resume, confirm, now, io) ==
    Bind(find_missing_addon_entries(w0.sync, w0.files), LAMBDA fm :
    Bind([w0 EXCEPT !.sync = fm.sync, !.out = FoundMissing(w0.sess, fm)], LAMBDA w :
    Bind([IdleSession EXCEPT !.mode = "range", !.runs = w.sess.runs + 1], LAMBDA fresh :
        IF fm.raised THEN [w EXCEPT !.sess = [fresh EXCEPT !.results = Tally(@, "errors")]]
        ELSE IF fm.val = <<>> THEN no_missing_entries(w, fresh)
        ELSE IF range_input.text = "" THEN [w EXCEPT !.sess = fresh]
        ELSE Bind(parse_range_selection(range_input, fm.val), LAMBDA selected_entries :
            IF selected_entries = <<>> \/ author = ""
               \/ (w.files["user"].exists /\ resume # "y") \/ confirm # "y"
            THEN [w EXCEPT !.sess = fresh]
            ELSE Bind(skip_existing([fresh EXCEPT !.pc = "building", !.missing = selected_entries,
                                                  !.idx = 1,
                                                  !.addon_data = load_json_data(w.files["user"]),
                                                  !.load_failed = ~parses_as_list(w.files["user"])]),
                      LAMBDA se :
                     IF se.idx > Len(se.missing)
                     THEN finish_session("root", [w EXCEPT !.sess = se], now, io)
                     ELSE [w EXCEPT !.sess = se])))))

\* Ctrl-C at a prompt of the builder
\* range mode breaks out of its loop; the other loops do not catch it: it
\* unwinds to run_interactive_menu, or out of the pythonThemeTools process
keyboard_interrupt(variant, w, now, io) ==
    IF w.sess.mode = "range" THEN finish_session(variant, [w EXCEPT !.sess.last = "interrupted"], now, io)
    ELSE IF variant = "tools"
    THEN [w EXCEPT !.sess.pc = "exited", !.sess.last = "interrupted", !.sess.exc = "KeyboardInterrupt"]
    ELSE [w EXCEPT !.sess = [Returned(w.sess) EXCEPT !.last = "interrupted",
                                                     !.exc = "KeyboardInterrupt"]]

\* _menu_create_single_entry of the integrated processor
create_single_entry(w, repo, modes, answers, overwrite, now, io) ==
    Bind(interactive_entry_builder_integrated(
             [repo |-> repo, name |-> "Custom Theme", author |-> "Unknown Author",
              screenshot |-> "", modes |-> modes], answers, DefaultMacros), LAMBDA b :
        IF ~b.some THEN w
        ELSE Bind(load_json_data(w.files["addon"]), LAMBDA addon_data :
            IF \E i \in DOMAIN addon_data : dict_get(addon_data[i], "repo", None) = repo
            THEN IF overwrite # "y" THEN w
                 ELSE Bind(save_addon_data("integrated", w,
                               Append(SelectSeq(addon_data,
                                                LAMBDA e : dict_get(e, "repo", None) # repo), b.entry),
                               now, io), LAMBDA r :
                         [w EXCEPT !.files = r.files, !.backups = r.backups, !.sess.closed = FALSE])
            ELSE Bind(save_addon_data("integrated", w, Append(addon_data, b.entry), now, io),
                      LAMBDA r :
                     [w EXCEPT !.files = r.files, !.backups = r.backups, !.sess.closed = FALSE])))

RECURSIVE merge_entries(_, _, _, _, _)
\* the loop of _merge_user_files over one user file
merge_entries(user_data, main_addon_data, main_repos, merged_count, now) ==
    IF user_data = <<>> THEN [data |-> main_addon_data, merged_count |-> merged_count]
    ELSE LET entry == Head(user_data)
             repo  == dict_get(entry, "repo", None)
         IN  IF repo \notin {None, ""} /\ repo \notin main_repos
             THEN merge_entries(Tail(user_data),
                                Append(main_addon_data,
                                       ("_author" :> "me") @@ ("_merged_at" :> now) @@ entry),
                                main_repos \cup {repo}, merged_count + 1, now)
             ELSE merge_entries(Tail(user_data), main_addon_data, main_repos, merged_count, now)

\* _merge_user_files with the one user file of the model; after a save that
\* succeeded the user file is renamed into user_files_backup/ or unlinked, and
\* is gone from its location either way
merge_user_files(w, confirm, now, io) ==
    IF ~w.files["user"].exists \/ confirm # "y" THEN w
    ELSE Bind(load_json_data(w.files["addon"]), LAMBDA main_addon_data :
         Bind(merge_entries(load_json_data(w.files["user"]), main_addon_data,
                            collect_repos(main_addon_data, {}) \ {None, ""}, 0, now), LAMBDA m :
            IF m.merged_count = 0 THEN w
            ELSE Bind(save_addon_data("root", w, m.data, now, io), LAMBDA r :
                    [w EXCEPT !.files = IF r.ok THEN [r.files EXCEPT !["user"] = NoFile] ELSE r.files,
                              !.backups = r.backups,
                              !.sess.closed = FALSE])))

(***************************************************************************)
(* Spec: one process of the batch processor at its menu, in one of its     *)
(* three versions, over an official file and an addon file.                *)
(***************************************************************************)
\* the number of menu operations that write a store, in one process
MaxRuns == 2

SessionOfficialLists == {<<ThemeAB>>, <<ThemeAB, ThemeCD>>, <<ThemeNoRepo, ThemeCD>>}

SessionAddonLists == {<<>>, <<AddonXY>>, <<AddonAB>>}

\* the official file: a list, or a list cut off
SessionOfficialFiles ==
    {FileOf(json_dump(O)) : O \in SessionOfficialLists} \cup {FileOf(truncated(json_dump(<<ThemeAB>>)))}

\* the addon file: absent, a list, a list cut off, or the repo-keyed object
\* the DataManager writes
SessionAddonFiles ==
    {IF A = <<>> THEN NoFile ELSE FileOf(json_dump(A)) : A \in SessionAddonLists}
    \cup {FileOf(truncated(json_dump(<<AddonAB>>))), FileOf(dump_keyed(<<AddonXY>>))}

\* what the operating system does to the saves of a session
SessionIO == {io \in IOOutcomes : io.copy}

\* the operator accepts the record as proposed
Accept == [create |-> "y", tags |-> <<>>, main |-> "", side |-> <<>>, confirm |-> "y"]

\* the operator passes the record over
Skip == [create |-> "n", tags |-> <<"skip">>, main |-> "", side |-> <<>>, confirm |-> "n"]

SessionAnswers == {Accept, Skip}

RangeLines == {RangeLine("all", <<>>), RangeLine("", <<>>), RangeLine("1", <<SinglePart(1)>>)}

World == [files |-> files, backups |-> backups, sync |-> sync, sess |-> sess, out |-> out]

SetWorld(w) ==
    /\ files' = w.files
    /\ backups' = w.backups
    /\ sync' = w.sync
    /\ sess' = w.sess
    /\ out' = w.out

Init ==
    /\ impl \in {"root", "integrated", "tools"}
    /\ \E O \in SessionOfficialFiles, A \in SessionAddonFiles :
          files = [n \in FileNames |->
                     IF n = "official" THEN O ELSE IF n = "addon" THEN A ELSE NoFile]
    /\ backups = NoBackups
    /\ clock = 0
    /\ sync = DataSynchronizer
    /\ sess = IdleSession
    /\ out = NoOut

AtMenu == sess.pc = "menu"

ProcessMissingEntriesInteractive ==
    /\ AtMenu
    /\ sess.runs < MaxRuns
    /\ \E w \in {process_missing_entries(impl, "interactive", World, clock, IOAllOk)} : SetWorld(w)
    /\ UNCHANGED <<impl, clock>>

ProcessMissingEntriesAutomatic ==
    /\ AtMenu
    /\ impl \in {"integrated", "tools"}
    /\ sess.runs < MaxRuns
    /\ \E io \in SessionIO :
          \E w \in {process_missing_entries(impl, "auto", World, clock, io)} : SetWorld(w)
    /\ UNCHANGED <<impl, clock>>

ProcessMissingEntriesRange ==
    /\ AtMenu
    /\ impl = "root"
    /\ sess.runs < MaxRuns
    /\ \E range_input \in RangeLines, author \in {"me", ""}, resume \in {"y", "n"},
          confirm \in {"y", "n"}, io \in SessionIO :
          \E w \in {process_missing_entries_range(World, range_input, author, resume, confirm,
                                                  clock, io)} : SetWorld(w)
    /\ UNCHANGED <<impl, clock>>

BuildEntry ==
    /\ sess.pc = "building"
    /\ \E answers \in SessionAnswers, fails \in BOOLEAN, io \in SessionIO,
          io_step \in IF sess.mode = "range" THEN SessionIO ELSE {IOAllOk} :
          \E w \in {build_entry(impl, World, answers, fails, clock, io_step, io)} : SetWorld(w)
    /\ UNCHANGED <<impl, clock>>

KeyboardInterrupt ==
    /\ sess.pc = "building"
    /\ \E io \in SessionIO :
          \E w \in {keyboard_interrupt(impl, World, clock, io)} : SetWorld(w)
    /\ UNCHANGED <<impl, clock>>

CreateSingleEntry ==
    /\ AtMenu
    /\ impl = "integrated"
    /\ sess.runs < MaxRuns
    /\ \E repo \in {"a/b", "n/w"}, answers \in SessionAnswers, overwrite \in {"y", "n"},
          io \in SessionIO :
          \E w \in {create_single_entry(World, repo, <<"dark">>, answers, overwrite, clock, io)} :
             SetWorld([w EXCEPT !.sess.runs = @ + 1, !.sess.mode = "single_entry"])
    /\ UNCHANGED <<impl, clock>>

MergeUserFiles ==
    /\ AtMenu
    /\ impl = "root"
    /\ sess.runs < MaxRuns
    /\ \E confirm \in {"y", "n"}, io \in SessionIO :
          \E w \in {merge_user_files(World, confirm, clock, io)} :
             SetWorld([w EXCEPT !.sess.runs = @ + 1, !.sess.mode = "merge"])
    /\ UNCHANGED <<impl, clock>>

\* _configure_file_paths with a path typed in: a new DataSynchronizer
ConfigureFilePaths ==
    /\ AtMenu
    /\ impl \in {"root", "integrated"}
    /\ sync' = DataSynchronizer
    /\ UNCHANGED <<impl, files, backups, clock, sess, out>>

\* _review_missing_entries, export_missing_entries_report
ReviewMissingEntries ==
    /\ AtMenu
    /\ impl \in {"integrated", "tools"}
    /\ \E fm \in {find_missing_addon_entries(sync, files)} :
          /\ sync' = fm.sync
          /\ out' = FoundMissing(sess, fm)
          /\ sess' = IF fm.raised /\ impl = "tools"
                     THEN [sess EXCEPT !.pc = "exited", !.mode = "report", !.exc = "TypeError"]
                     ELSE sess
    /\ UNCHANGED <<impl, files, backups, clock>>

\* print_sync_report of the synchronizer, which reloads both files and reads
\* comparison['official_count']: KeyError when the comparison is the error dict
ShowSyncStatus ==
    /\ AtMenu
    /\ impl = "tools"
    /\ \E r \in {compare_json_files(sync, files)} :
          /\ sync' = r.sync
          /\ sess' = IF r.raised
                     THEN [sess EXCEPT !.pc = "exited", !.mode = "report", !.exc = "AttributeError"]
                     ELSE IF "error" \in DOMAIN r.val
                     THEN [sess EXCEPT !.pc = "exited", !.mode = "report", !.exc = "KeyError"]
                     ELSE sess
    /\ UNCHANGED <<impl, files, backups, clock, out>>

Next ==
    \/ ProcessMissingEntriesInteractive
    \/ ProcessMissingEntriesAutomatic
    \/ ProcessMissingEntriesRange
    \/ BuildEntry
    \/ KeyboardInterrupt
    \/ CreateSingleEntry
    \/ MergeUserFiles
    \/ ConfigureFilePaths
    \/ ReviewMissingEntries
    \/ ShowSyncStatus

Spec == Init /\ [][Next]_vars

\* the store a session writes its records to
SessionStore == IF sess.mode = "range" THEN load_json_data(files["user"]) ELSE AddonList

\* C2: once a batch session has produced and saved an addon record for every
\* missing official record, the next find_missing_addon_entries call made
\* through the same synchronizer returns the empty list.
C2_ReconciliationCloses ==
    (out.op = "find_missing" /\ out.arg.closed) => out.val = <<>>

\* C3: with distinct repos in the official list and in the addon store at the
\* start, no sequence of sessions, single-entry creations and merges in one
\* process leaves two records with the same repo in the saved addon store.
C3_KeyUniqueness == NoRepeatedRepo(OfficialList) => NoRepeatedRepo(AddonList)

\* C4: at every point of a batch session, every record already counted in
\* processed is in the store on disk (stated for the sessions none of whose
\* saves has failed).
C4_ProcessedRecordsOnDisk ==
    (sess.pc = "building" /\ ~sess.write_failed) =>
        \A i \in DOMAIN sess.created : \E j \in DOMAIN SessionStore : SessionStore[j] = sess.created[i]

\* the modes of a batch session, and the store each writes
SessionModes == {"interactive", "auto", "range"}

StoreOf(mode) == IF mode = "range" THEN "user" ELSE "addon"

\* C13: when the builder raises for a missing record, the session adds exactly
\* one to errors for it, adds nothing to the addon list, and goes on to the
\* next record in order; after the last record it ends as it would have, the
\* final save writing the list as it was (a final save that fails is counted
\* by its own increment).
C13_BuilderErrorIsolated ==
    [][(sess.pc = "building" /\ sess'.last = "raised") =>
          /\ sess'.results.processed = sess.results.processed
          /\ IF sess'.pc = "building"
             THEN /\ sess'.results.errors = sess.results.errors + 1
                  /\ sess'.addon_data = sess.addon_data
                  /\ sess'.missing = sess.missing
                  /\ sess'.idx > sess.idx
                  /\ sess.mode # "range" => sess'.idx = sess.idx + 1
                  /\ sess'.results.skipped = sess.results.skipped + (sess'.idx - sess.idx - 1)
                  /\ files' = files
             ELSE /\ sess'.pc = "menu"
                  /\ \A i \in (sess.idx + 1) .. Len(sess.missing) :
                        /\ sess.mode = "range"
                        /\ dict_get(sess.missing[i], "repo", "unknown")
                              \in collect_repos(sess.addon_data, {})
                  /\ sess'.results.errors =
                        sess.results.errors + 1
                        + (IF sess.results.processed > 0 /\ ~sess'.saved THEN 1 ELSE 0)
                  /\ sess'.saved => load_json_data(files'[StoreOf(sess.mode)]) = sess.addon_data
                  /\ sess.results.processed = 0 => files' = files]_vars

\* a session went past a record whose builder raised and stands at the next
C13_Witness ==
    /\ sess.pc = "building"
    /\ sess.last = "raised"
    /\ sess.idx = 2
    /\ sess.results.errors = 1

\* C14: when the save that follows a built record fails, the session counts
\* it as an error of that iteration and goes on with the next record.
C14_SaveFailureCounted ==
    [][(sess.pc = "building" /\ sess'.last = "save_failed") =>
          /\ sess'.results.errors > sess.results.errors
          /\ sess'.idx > sess.idx \/ sess'.pc = "menu"]_vars

\* C15: after a KeyboardInterrupt at a prompt, in every mode, the session has
\* caught it and returned its tally: nothing has unwound out of the session.
C15_InterruptCaught ==
    sess.last = "interrupted" => (sess.pc = "menu" /\ sess.exc = "none")

Malformed(f) == f.exists /\ ~json_load(f.text).ok

\* C16: when the official or the addon file exists and is malformed, a batch
\* session run ends by returning a tally: no exception escapes it (the
\* operator's own interrupt aside).
C16_MalformedReturnsTally ==
    (sess.mode \in SessionModes /\ (Malformed(files["official"]) \/ Malformed(files["addon"]))) =>
        sess.exc \in {"none", "KeyboardInterrupt"}

\* C17: when the load of the store at the start of a session failed to parse
\* (the file malformed, or not an array), no step of that session changes the
\* content of the file.
C17_BadReadNeverTruncates ==
    [][(sess'.load_failed /\ sess'.mode \in SessionModes) =>
          files'[StoreOf(sess'.mode)] = files[StoreOf(sess'.mode)]]_vars

\* C19: when find_missing_addon_entries returns no record, the session
\* returns the zero tally at once: no builder, no save, the files and the
\* backups as they were.
C19_EmptySessionIsNoOp ==
    [][(/\ sess'.runs = sess.runs + 1
        /\ sess'.mode \in SessionModes
        /\ out'.op = "find_missing" /\ ~out'.raised /\ out'.val = <<>>) =>
          /\ sess'.pc = "menu"
          /\ sess'.results = ZeroTally
          /\ sess'.last = "none"
          /\ ~sess'.saved
          /\ sess'.exc = "none"
          /\ files' = files
          /\ backups' = backups]_vars

\* a session over an addon file that covers the official list has returned
C19_Witness ==
    /\ sess.runs = 1
    /\ sess.mode \in SessionModes
    /\ out.op = "find_missing" /\ ~out.raised /\ out.val = <<>>
    /\ sess.pc = "menu"
    /\ sess.results = ZeroTally
    /\ files["addon"].exists

(***************************************************************************)
(* Validator (Old/batch_processor/core/validator.py).  A probe is what one *)
(* HTTP request comes to: a response with a status code, or an exception.  *)
(* A message built with an f-string keeps its text and its number.         *)
(***************************************************************************)
Msg(text) == <<text, 0>>

\* ValidationResult(field, is_valid, message, severity="error")
ValidationResult(field, is_valid, message, severity) ==
    [field |-> field, is_valid |-> is_valid, message |-> message, severity |-> severity]

Response(code) == [kind |-> "response", status_code |-> code]

Raises(exception) == [kind |-> exception, status_code |-> 0]

StatusCodes == {200, 201, 204, 206, 403, 404, 500}

ProbeOutcomes ==
    {Response(c) : c \in StatusCodes} \cup {Raises("Timeout"), Raises("ConnectionError"), Raises("Exception")}

\* the strings tried as URLs: empty, blank, without a scheme, well formed
Urls == {"", " ", "s.png", "https://h/s.png"}

strip(u) == IF u = " " THEN "" ELSE u

\* urlparse(url) has a scheme and a netloc
well_formed(u) == u = "https://h/s.png"

validate_url(url, probe) ==
    IF url = "" \/ strip(url) = "" THEN ValidationResult("url", FALSE, Msg("URL is empty"), "error")
    ELSE IF ~well_formed(strip(url)) THEN ValidationResult("url", FALSE, Msg("Invalid URL format"), "error")
    ELSE IF probe.kind = "response"
    THEN IF probe.status_code = 200 THEN ValidationResult("url", TRUE, Msg("URL is accessible"), "error")
         ELSE IF probe.status_code = 404
         THEN ValidationResult("url", FALSE, Msg("URL not found (404)"), "error")
         ELSE IF probe.status_code = 403
         THEN ValidationResult("url", FALSE, Msg("Access forbidden (403)"), "warning")
         ELSE ValidationResult("url", FALSE, <<"HTTP", probe.status_code>>, "warning")
    ELSE IF probe.kind = "Timeout" THEN ValidationResult("url", FALSE, Msg("URL request timed out"), "warning")
    ELSE IF probe.kind = "ConnectionError" THEN ValidationResult("url", FALSE, Msg("Connection error"), "warning")
    ELSE ValidationResult("url", FALSE, Msg("Network error"), "warning")

\* a 200 response of the GitHub API whose JSON says archived: true
ArchivedResponse == [kind |-> "response", status_code |-> 200, archived |-> TRUE]

\* re.match(r'^[a-zA-Z0-9\-_\.]+/[a-zA-Z0-9\-_\.]+$', repo) on the repos of the model
repo_format_ok(repo) == repo \in {"a/b", "c/d", "x/y"}

validate_github_repo(repo, probe) ==
    IF repo = "" \/ strip(repo) = ""
    THEN ValidationResult("github_repo", FALSE, Msg("Repository field is empty"), "error")
    ELSE IF ~repo_format_ok(strip(repo))
    THEN ValidationResult("github_repo", FALSE, Msg("Invalid repository format"), "error")
    ELSE IF probe.kind = "response"
    THEN IF probe.status_code = 200
         THEN IF "archived" \in DOMAIN probe /\ probe.archived
              THEN ValidationResult("github_repo", TRUE, Msg("Repository exists but is archived"), "warning")
              ELSE ValidationResult("github_repo", TRUE, Msg("Repository exists and is accessible"), "error")
         ELSE IF probe.status_code = 404
         THEN ValidationResult("github_repo", FALSE, Msg("Repository not found"), "error")
         ELSE IF probe.status_code = 403
         THEN ValidationResult("github_repo", FALSE, Msg("GitHub API access limited"), "warning")
         ELSE ValidationResult("github_repo", FALSE, <<"GitHub API error", probe.status_code>>, "warning")
    ELSE IF probe.kind = "Timeout"
    THEN ValidationResult("github_repo", FALSE, Msg("GitHub API request timed out"), "warning")
    ELSE IF probe.kind = "ConnectionError"
    THEN ValidationResult("github_repo", FALSE, Msg("Connection to GitHub failed"), "warning")
    ELSE ValidationResult("github_repo", FALSE, Msg("GitHub validation error"), "warning")

\* f'screenshots-side[{i}]'
SideField(i) == <<"screenshots-side[0]", "screenshots-side[1]", "screenshots-side[2]">>[i + 1]

\* the default configuration
ValidatorConfig ==
    [max_concurrent_validations |-> 5,
     required_fields |-> <<"repo", "tags", "screenshot-main">>,
     optional_fields |-> <<"screenshots-side", "notes">>,
     max_side_screenshots |-> 10, min_tag_count |-> 1, max_tag_count |-> 10]

validate_screenshot_urls(theme_data, probe) ==
    LET main_screenshot == dict_get(theme_data, "screenshot-main", "")
        side_screenshots == dict_get(theme_data, "screenshots-side", <<>>)
        side == SelectSeq([i \in DOMAIN side_screenshots |-> i], LAMBDA i : side_screenshots[i] # "")
    IN  (IF main_screenshot # ""
         THEN <<[validate_url(main_screenshot, probe) EXCEPT !.field = "screenshot-main"]>>
         ELSE <<ValidationResult("screenshot-main", FALSE, Msg("Main screenshot is required"), "error")>>)
        \o (IF Len(side_screenshots) > ValidatorConfig.max_side_screenshots
            THEN <<ValidationResult("screenshots-side", FALSE,
                                    <<"Too many side screenshots", Len(side_screenshots)>>, "error")>>
            ELSE <<>>)
        \o [k \in DOMAIN side |->
              [validate_url(side_screenshots[side[k]], probe) EXCEPT !.field = SideField(side[k] - 1)]]

\* re.match(r'^[a-z0-9_]+$', tag) on the tags of the model
tag_format_ok(tag) == tag \notin {"Zen", ""}

\* the results one tag adds in the loop of validate_tags
validate_one_tag(tag, valid_tags) ==
    IF tag = "" \/ strip(tag) = "" THEN <<ValidationResult("tags", FALSE, Msg("Empty tag found"), "error")>>
    ELSE (IF ~tag_format_ok(strip(tag))
          THEN <<ValidationResult("tags", FALSE, Msg("Invalid tag format"), "error")>> ELSE <<>>)
         \o (IF valid_tags.some /\ valid_tags.entry # <<>> /\ ~InList(strip(tag), valid_tags.entry)
             THEN <<ValidationResult("tags", FALSE, Msg("Unknown tag"), "warning")>> ELSE <<>>)

RECURSIVE validate_each_tag(_, _)
validate_each_tag(tags, valid_tags) ==
    IF tags = <<>> THEN <<>>
    ELSE validate_one_tag(Head(tags), valid_tags) \o validate_each_tag(Tail(tags), valid_tags)

\* valid_tags is Entry(list) or NoEntry for None
validate_tags(theme_data, valid_tags) ==
    LET tags == dict_get(theme_data, "tags", <<>>)
        results ==
            (IF Len(tags) < ValidatorConfig.min_tag_count
             THEN <<ValidationResult("tags", FALSE, Msg("Minimum tag(s) required"), "error")>> ELSE <<>>)
            \o (IF Len(tags) > ValidatorConfig.max_tag_count
                THEN <<ValidationResult("tags", FALSE, Msg("Maximum tags allowed"), "error")>> ELSE <<>>)
            \o validate_each_tag(tags, valid_tags)
            \o (IF Len(tags) # Cardinality(Range(tags))
                THEN <<ValidationResult("tags", FALSE, Msg("Duplicate tags found"), "error")>> ELSE <<>>)
    IN  IF tags = <<>> THEN <<ValidationResult("tags", FALSE, Msg("At least one tag is required"), "error")>>
        ELSE IF results = <<>>
        THEN <<ValidationResult("tags", TRUE, <<"All tags are valid", Len(tags)>>, "error")>>
        ELSE results

\* one required field: missing, an empty string, an empty list, or present
validate_required_field(theme_data, field) ==
    IF field \notin DOMAIN theme_data
    THEN ValidationResult(field, FALSE, Msg("Required field is missing"), "error")
    ELSE IF field \notin ListFields /\ strip(theme_data[field]) = ""
    THEN ValidationResult(field, FALSE, Msg("Required field is empty"), "error")
    ELSE IF field \in ListFields /\ theme_data[field] = <<>>
    THEN ValidationResult(field, FALSE, Msg("Required field is empty list"), "error")
    ELSE ValidationResult(field, TRUE, Msg("Required field is present"), "error")

validate_required_fields(theme_data) ==
    [i \in DOMAIN ValidatorConfig.required_fields |->
        validate_required_field(theme_data, ValidatorConfig.required_fields[i])]

validate_completion_status(theme_data) ==
    LET required_results == validate_required_fields(theme_data)
        optional_missing ==
            SelectSeq(ValidatorConfig.optional_fields, LAMBDA field :
                \/ field \notin DOMAIN theme_data
                \/ field \in ListFields /\ theme_data[field] = <<>>
                \/ field \notin ListFields /\ strip(theme_data[field]) = "")
    IN  IF \E i \in DOMAIN required_results : ~required_results[i].is_valid
        THEN ValidationResult("completion_status", FALSE, Msg("incomplete"), "info")
        ELSE IF optional_missing # <<>>
        THEN ValidationResult("completion_status", TRUE, Msg("needs_review"), "info")
        ELSE ValidationResult("completion_status", TRUE, Msg("complete"), "info")

\* theme_data that is a dict, and a value that is not (null in the JSON)
ThemeData(d) == [is_dict |-> TRUE, data |-> d]

NotADict == [is_dict |-> FALSE, data |-> <<>>]

\* net: what the GitHub request and the URL requests of this validation come to.
\* theme_data.get on a value that is not a dict raises AttributeError
validate_theme_full(theme_data, valid_tags, net) ==
    IF ~theme_data.is_dict THEN [raised |-> TRUE, val |-> <<>>]
    ELSE [raised |-> FALSE,
          val |-> validate_required_fields(theme_data.data)
                  \o validate_tags(theme_data.data, valid_tags)
                  \o (IF dict_get(theme_data.data, "repo", "") # ""
                      THEN <<validate_github_repo(theme_data.data["repo"], net.github)>> ELSE <<>>)
                  \o validate_screenshot_urls(theme_data.data, net.url)
                  \o <<validate_completion_status(theme_data.data)>>]

(***************************************************************************)
(* SpecValidator: validate_theme_batch over a pool of worker threads, and  *)
(* validate_url.  sess holds the locals of validate_theme_batch: the       *)
(* futures by repo, and results, the dict the main thread fills as the     *)
(* futures complete.                                                       *)
(***************************************************************************)
MaxThemes == 2

BatchKeys == {"a/b", "c/d", "x/y"}

BatchThemes ==
    {ThemeData(AddonRecord("a/b", "https://h/s.png", <<>>, <<"dark">>)),
     ThemeData(AddonRecord("a/b", "", <<"https://h/s.png">>, <<"Zen", "Zen">>)),
     NotADict}

ThemesData ==
    UNION {[K -> BatchThemes] : K \in {K \in SUBSET BatchKeys : Cardinality(K) <= MaxThemes}}

\* what the requests of one validation come to
TaskNets ==
    {[github |-> Response(200), url |-> Response(200)],
     [github |-> Response(404), url |-> Raises("Timeout")]}

NoNet == [github |-> Raises("Exception"), url |-> Raises("Exception")]

Future(state, net, outcome) == [state |-> state, net |-> net, outcome |-> outcome]

NoOutcome == [raised |-> FALSE, val |-> <<>>]

InitValidator ==
    /\ impl = "validator"
    /\ files = [n \in FileNames |-> NoFile]
    /\ backups = NoBackups
    /\ clock = 0
    /\ sync = DataSynchronizer
    /\ \E themes_data \in ThemesData, valid_tags \in {NoEntry, Entry(<<"dark">>)} :
          sess = [pc |-> "idle", themes_data |-> themes_data, valid_tags |-> valid_tags,
                  future_to_repo |-> <<>>, results |-> <<>>]
    /\ out = NoOut

\* the call up to the end of the dict comprehension: every task submitted
ValidateThemeBatch ==
    /\ sess.pc = "idle"
    /\ out.op = "none"
    /\ sess' = [sess EXCEPT !.pc = "collecting",
                            !.future_to_repo = [k \in DOMAIN sess.themes_data |->
                                                  Future("pending", NoNet, NoOutcome)]]
    /\ UNCHANGED <<impl, files, backups, clock, sync, out>>

\* a free worker of the pool takes a submitted task
RunTask ==
    /\ sess.pc = "collecting"
    /\ Cardinality({k \in DOMAIN sess.future_to_repo : sess.future_to_repo[k].state = "running"})
          < ValidatorConfig.max_concurrent_validations
    /\ \E k \in DOMAIN sess.future_to_repo :
          /\ sess.future_to_repo[k].state = "pending"
          /\ sess' = [sess EXCEPT !.future_to_repo[k].state = "running"]
    /\ UNCHANGED <<impl, files, backups, clock, sync, out>>

\* validate_single returns or raises in its worker
FinishTask ==
    /\ sess.pc = "collecting"
    /\ \E k \in DOMAIN sess.future_to_repo, net \in TaskNets :
          /\ sess.future_to_repo[k].state = "running"
          /\ sess' = [sess EXCEPT !.future_to_repo[k] =
                        Future("done", net,
                               validate_theme_full(sess.themes_data[k], sess.valid_tags, net))]
    /\ UNCHANGED <<impl, files, backups, clock, sync, out>>

\* the except branch that forgets to record the repo
record_exception_dropped(results, repo) == results

\* results[repo] = [ValidationResult('validation', False, f"Validation error: {e}")]
record_exception(results, repo) ==
    (repo :> <<ValidationResult("validation", FALSE, Msg("Validation error"), "error")>>) @@ results

\* one turn of `for future in as_completed(future_to_repo)` in the main thread
CollectResult ==
    /\ sess.pc = "collecting"
    /\ \E k \in DOMAIN sess.future_to_repo :
          /\ sess.future_to_repo[k].state = "done"
          /\ sess' = [sess EXCEPT !.future_to_repo[k].state = "collected",
                                  !.results = IF sess.future_to_repo[k].outcome.raised
                                              THEN record_exception(@, k)
                                              ELSE (k :> sess.future_to_repo[k].outcome.val) @@ @]
    /\ UNCHANGED <<impl, files, backups, clock, sync, out>>

\* as_completed is exhausted: return results
ReturnResults ==
    /\ sess.pc = "collecting"
    /\ \A k \in DOMAIN sess.future_to_repo : sess.future_to_repo[k].state = "collected"
    /\ sess' = [sess EXCEPT !.pc = "returned"]
    /\ out' = [op |-> "validate_theme_batch", arg |-> sess.themes_data, raised |-> FALSE,
               val |-> sess.results]
    /\ UNCHANGED <<impl, files, backups, clock, sync>>

\* validate_url(url) with the request coming to probe
ValidateUrl ==
    /\ sess.pc = "idle"
    /\ out.op = "none"
    /\ \E url \in Urls, probe \in ProbeOutcomes :
          out' = [op |-> "validate_url", arg |-> [url |-> url, probe |-> probe], raised |-> FALSE,
                  val |-> validate_url(url, probe)]
    /\ UNCHANGED <<impl, files, backups, clock, sync, sess>>

NextValidator ==
    \/ ValidateThemeBatch
    \/ RunTask
    \/ FinishTask
    \/ CollectResult
    \/ ReturnResults
    \/ ValidateUrl

SpecValidator == InitValidator /\ [][NextValidator]_vars

\* C21: whatever the order in which the pooled tasks complete, the mapping
\* validate_theme_batch returns has the keys of the input mapping, and under
\* each key that record's own validation result; a task that raised is one
\* synthetic 'validation' violation under its own key.
C21_BatchResultPerKey ==
    out.op = "validate_theme_batch" =>
        /\ DOMAIN out.val = DOMAIN out.arg
        /\ \A k \in DOMAIN out.arg :
              out.val[k] =
                 IF ~out.arg[k].is_dict
                 THEN <<ValidationResult("validation", FALSE, Msg("Validation error"), "error")>>
                 ELSE validate_theme_full(out.arg[k], sess.valid_tags, sess.future_to_repo[k].net).val

\* a batch of two records returned, one of whose tasks raised, the other
\* collected first though it was validated against a failing network
C21_Witness ==
    /\ out.op = "validate_theme_batch"
    /\ Cardinality(DOMAIN out.val) = 2
    /\ \E k \in DOMAIN out.arg : ~out.arg[k].is_dict
    /\ \E k \in DOMAIN out.arg : out.arg[k].is_dict /\ sess.future_to_repo[k].net.url.kind = "Timeout"

\* a well-formed URL was sent
Probed == out.op = "validate_url" /\ well_formed(strip(out.arg.url))

\* C22: validate_url gives a valid result for every 2xx status, an invalid
\* result of severity error for 404, an invalid result of severity warning
\* for 403, a timeout or a connection failure; no probe outcome raises.
C22_UrlClassification ==
    Probed =>
        LET probe == out.arg.probe
        IN  /\ ~out.raised
            /\ (probe.kind = "response" /\ probe.status_code \in 200 .. 299) => out.val.is_valid
            /\ (probe.kind = "response" /\ probe.status_code = 404) =>
                  (~out.val.is_valid /\ out.val.severity = "error")
            /\ (\/ probe.kind = "response" /\ probe.status_code = 403
                \/ probe.kind \in {"Timeout", "ConnectionError"}) =>
                  (~out.val.is_valid /\ out.val.severity = "warning")

\* C23: a record that lacks its repo field is never fatal to reconciliation:
\* every find-missing and find-orphaned operation completes without raising,
\* and no record without a repo is in the list it returns.
C23_UnkeyableRecordSkipped ==
    out.op \in {"find_missing", "find_orphaned", "detect_new", "detect_deleted"} =>
        /\ ~out.raised
        /\ out.op # "detect_deleted" => \A i \in DOMAIN out.val : "repo" \in DOMAIN out.val[i]

\* a batch session that went through its records has returned
SessionCompleted ==
    /\ sess.mode \in SessionModes
    /\ sess.pc = "menu"
    /\ sess.missing # <<>>

\* C24: each successful build triggers exactly one save of the store: when
\* the session has ended, the number of save calls it made equals the number
\* of records counted as processed.
C24_OneSavePerBuild ==
    SessionCompleted => sess.saves = sess.results.processed

\* C25: whenever a save of the addon store with backup returns failure, the
\* content that was at the location before the call is still there, or is
\* held by a Backup Artifact.
C25_FailedSaveKeepsPriorStore ==
    [][(/\ out'.op = "save"
        /\ out' # out
        /\ out'.val.backup
        /\ ~out'.val.ok
        /\ files["addon"].exists) =>
          \/ files'["addon"] = files["addon"]
          \/ files'["addon.json.backup"] = files["addon"]
          \/ \E n \in BackupNames : backups'[n] = files["addon"]]_vars

\* C26: when a batch session over n missing records has run to completion
\* without interruption, processed + skipped + errors = n, whatever the
\* outcomes of the builds and the saves.
C26_TallyConservation ==
    (SessionCompleted /\ sess.last # "interrupted") =>
        sess.results.processed + sess.results.skipped + sess.results.errors = Len(sess.missing)

(***************************************************************************)
(* SpecMerge: the root batch processor at its menu, over an addon file and *)
(* a user file that contributors wrote.                                    *)
(***************************************************************************)
\* the number of records of a user file
MaxUser == 2

AddonCD2 == AddonRecord("c/d", "v.png", <<>>, <<"light">>)

UserRecords == {AddonAB, AddonCD2, AddonXY, AddonNoRepo}

UserFiles ==
    {FileOf(json_dump(U)) : U \in SeqsUpTo(UserRecords, MaxUser)}
    \cup {NoFile, FileOf(truncated(json_dump(<<AddonXY>>)))}

MergeAddonFiles == {NoFile, FileOf(json_dump(<<AddonAB>>)), FileOf(json_dump(<<AddonCD, AddonNoRepo>>))}

InitMerge ==
    /\ impl = "root"
    /\ \E A \in MergeAddonFiles, U \in UserFiles :
          files = [n \in FileNames |-> IF n = "addon" THEN A ELSE IF n = "user" THEN U ELSE NoFile]
    /\ backups = NoBackups
    /\ clock = 0
    /\ sync = DataSynchronizer
    /\ sess = IdleSession
    /\ out = NoOut

NextMerge == MergeUserFiles

SpecMerge == InitMerge /\ [][NextMerge]_vars

\* the repos of the records of a file, None for a record without one
repos_held(f) == {dict_get(load_json_data(f)[i], "repo", None) : i \in DOMAIN load_json_data(f)}

\* C27: merging user files loses no work: whenever _merge_user_files deletes
\* or moves away a user file, every record the file held is represented in
\* the saved main addon store by a record with the same repo.
C27_MergeLosesNoWork ==
    [][(files["user"].exists /\ ~files'["user"].exists) =>
          repos_held(files["user"]) \subseteq repos_held(files'["addon"])]_vars

(***************************************************************************)
(* SpecClean: the integrated batch processor at its file operations menu,  *)
(* over an addon file that may hold several records of one repo.           *)
(***************************************************************************)
\* the number of records of the addon file
MaxDup == 3

\* a second record with the repo of AddonAB
AddonAB2 == AddonRecord("a/b", "u.png", <<>>, <<"light">>)

DupRecords == {AddonAB, AddonAB2, AddonXY, AddonNoRepo}

RECURSIVE clean_entries(_, _, _)
\* the loop of _clean_duplicates
clean_entries(addon_data, seen_repos, cleaned_data) ==
    IF addon_data = <<>> THEN cleaned_data
    ELSE LET entry == Head(addon_data)
             repo  == dict_get(entry, "repo", None)
         IN  IF repo \notin {None, ""} /\ repo \notin seen_repos
             THEN clean_entries(Tail(addon_data), seen_repos \cup {repo}, Append(cleaned_data, entry))
             ELSE clean_entries(Tail(addon_data), seen_repos, cleaned_data)

\* _clean_duplicates
clean_duplicates(w, confirm, now, io) ==
    Bind(load_addon_data("integrated", w.sync, w.files).data, LAMBDA addon_data :
    Bind(clean_entries(addon_data, {}, <<>>), LAMBDA cleaned_data :
    Bind([w EXCEPT !.out = [op |-> "clean_duplicates", arg |-> addon_data, raised |-> FALSE,
                            val |-> cleaned_data]], LAMBDA w1 :
        IF Len(addon_data) - Len(cleaned_data) > 0 /\ confirm = "y"
        THEN Bind(save_addon_data("integrated", w1, cleaned_data, now, io), LAMBDA r :
                [w1 EXCEPT !.files = r.files, !.backups = r.backups])
        ELSE w1)))

InitClean ==
    /\ impl = "integrated"
    /\ \E A \in SeqsUpTo(DupRecords, MaxDup) :
          files = [n \in FileNames |-> IF n = "addon" THEN FileOf(json_dump(A)) ELSE NoFile]
    /\ backups = NoBackups
    /\ clock = 0
    /\ sync = DataSynchronizer
    /\ sess = IdleSession
    /\ out = NoOut

CleanDuplicates ==
    /\ AtMenu
    /\ impl = "integrated"
    /\ sess.runs < MaxRuns
    /\ \E confirm \in {"y", "n"}, io \in SessionIO :
          \E w \in {clean_duplicates(World, confirm, clock, io)} :
             SetWorld([w EXCEPT !.sess.runs = @ + 1])
    /\ UNCHANGED <<impl, clock>>

NextClean == CleanDuplicates

SpecClean == InitClean /\ [][NextClean]_vars

\* the record at position i has the repo of an earlier record
repeats_earlier(data, i) ==
    \E j \in 1 .. i - 1 : dict_get(data[j], "repo", None) = dict_get(data[i], "repo", None)

RECURSIVE first_records(_, _)
\* the records from position i on that repeat no earlier record, in order
first_records(data, i) ==
    IF i > Len(data) THEN <<>>
    ELSE (IF repeats_earlier(data, i) THEN <<>> ELSE <<data[i]>>) \o first_records(data, i + 1)

\* C28: _clean_duplicates keeps, in the original order, the first record of
\* every distinct repo and removes only later records whose repo repeats an
\* earlier one: every record that is not such a repeat is still present.
C28_CleanKeepsFirstOfEachRepo ==
    out.op = "clean_duplicates" => out.val = first_records(out.arg, 1)

(***************************************************************************)
(* SpecRange: _parse_range_selection over the range lines an operator can  *)
(* type and the lists of missing entries.                                  *)
(***************************************************************************)
\* the number of entries of the list
MaxEntries == 3

\* the number of comma-separated parts of a line
MaxParts == 2

ThemeXY == OfficialRecord("x/y", "Theme Y", "o.png", <<>>)

ThemeEF == OfficialRecord("e/f", "Theme F", "f.png", <<"dark">>)

AllEntries == <<ThemeAB, ThemeCD, ThemeXY, ThemeEF>>

\* the numbers a part is made of: 0, the positions of the list, one beyond
Positions == 0 .. MaxEntries + 1

RangeParts ==
    {RangePart(a, b) : a, b \in Positions} \cup {SinglePart(n) : n \in Positions} \cup {BadPart}

\* the lines: empty, "all", or one to MaxParts parts
RangeInputs ==
    {RangeLine("", <<>>), RangeLine("all", <<>>)}
    \cup {RangeLine("parts", parts) : parts \in SeqsUpTo(RangeParts, MaxParts) \ {<<>>}}

InitRange ==
    /\ impl = "root"
    /\ files = [n \in FileNames |-> NoFile]
    /\ backups = NoBackups
    /\ clock = 0
    /\ sync = DataSynchronizer
    /\ sess = IdleSession
    /\ out = NoOut

ParseRangeSelection ==
    /\ out.op = "none"
    /\ \E range_input \in RangeInputs, k \in 0 .. MaxEntries :
          \E all_entries \in {SubSeq(AllEntries, 1, k)} :
             out' = [op |-> "parse_range_selection",
                     arg |-> [range_input |-> range_input, all_entries |-> all_entries],
                     raised |-> FALSE,
                     val |-> parse_range_selection(range_input, all_entries)]
    /\ UNCHANGED <<impl, files, backups, clock, sync, sess>>

NextRange == ParseRangeSelection

SpecRange == InitRange /\ [][NextRange]_vars

\* the part names the 1-based position p
names(part, p) ==
    \/ part.kind = "range" /\ part.start <= p /\ p <= part.end
    \/ part.kind = "single" /\ p = part.start

\* the positions of a list of n entries that the line names
named_positions(range_input, n) ==
    IF range_input.text \in {"", "all"} THEN 1 .. n
    ELSE {p \in 1 .. n : \E i \in DOMAIN range_input.parts : names(range_input.parts[i], p)}

\* the entries at the positions P, in their order
entries_at(all_entries, P) ==
    LET at == SelectSeq([i \in DOMAIN all_entries |-> i], LAMBDA i : i \in P)
    IN  [k \in DOMAIN at |-> all_entries[at[k]]]

\* every part of the line is a number or a range of two numbers
well_formed_line(range_input) ==
    \A i \in DOMAIN range_input.parts : range_input.parts[i].kind # "bad"

\* C29 as stated: for every range input and entry list the result is the
\* entries at exactly the 1-based positions the input names, clipped to the
\* list, in the original order and without duplicates.
C29_RangeSelectsNamedPositions ==
    out.op = "parse_range_selection" =>
        out.val = entries_at(out.arg.all_entries,
                             named_positions(out.arg.range_input, Len(out.arg.all_entries)))

\* C29: for every range input whose parts are all numbers or ranges, and for
\* "all" and the empty input, the result is the entries at exactly the
\* 1-based positions the input names, clipped to the list, in the original
\* order and without duplicates; an input with a part that is neither gives
\* the empty list.
C29_WellFormedRangeSelectsNamedPositions ==
    out.op = "parse_range_selection" =>
        IF well_formed_line(out.arg.range_input)
        THEN out.val = entries_at(out.arg.all_entries,
                                  named_positions(out.arg.range_input, Len(out.arg.all_entries)))
        ELSE out.val = <<>>

C29_Witness ==
    /\ out.op = "parse_range_selection"
    /\ out.arg.range_input.parts = <<RangePart(2, MaxEntries + 1), SinglePart(1)>>
    /\ Len(out.arg.all_entries) = MaxEntries
    /\ out.val = out.arg.all_entries

(***************************************************************************)
(* SpecStatus: the synchronization status menu of the batch processor      *)
(* (the same code in the root, the debloated and the integrated version),  *)
(* beside compare_json_files of the DataSynchronizer over the same files.  *)
(***************************************************************************)
NotShown == [shown |-> FALSE, sync_percentage |-> Rat(0, 1)]

\* _menu_synchronization_status: the percentage it prints, if it prints one
menu_synchronization_status(fs) ==
    Bind(load_json_data(fs["official"]), LAMBDA official_data :
    Bind(load_json_data(fs["addon"]), LAMBDA addon_data :
        IF official_data = <<>> THEN NotShown
        ELSE
    Bind(collect_repos(official_data, {}) \ {None, ""}, LAMBDA official_repos :
    Bind(collect_repos(addon_data, {}) \ {None, ""}, LAMBDA addon_repos :
        IF Cardinality(official_repos) > 0
        THEN [shown |-> TRUE,
              sync_percentage |->
                  float_mul(float_div(Cardinality(addon_repos), Cardinality(official_repos)), 100)]
        ELSE NotShown))))

InitStatus ==
    /\ impl \in {"root", "integrated"}
    /\ \E O \in SeqsUpTo(ReconOfficialRecords, MaxOfficial), A \in SeqsUpTo(ReconAddonRecords, MaxAddon) :
          \E addonExists \in BOOLEAN :
             files = [n \in FileNames |->
                        IF n = "official" THEN FileOf(json_dump(O))
                        ELSE IF n = "addon" /\ (addonExists \/ A # <<>>) THEN FileOf(json_dump(A))
                        ELSE NoFile]
    /\ backups = NoBackups
    /\ clock = 0
    /\ sync = DataSynchronizer
    /\ sess = IdleSession
    /\ out = NoOut

MenuSynchronizationStatus ==
    /\ AtMenu
    /\ out.op = "none"
    /\ out' = [op |-> "menu_synchronization_status", arg |-> <<>>, raised |-> FALSE,
               val |-> menu_synchronization_status(files)]
    /\ UNCHANGED <<impl, files, backups, clock, sync, sess>>

NextStatus == MenuSynchronizationStatus

SpecStatus == InitStatus /\ [][NextStatus]_vars

\* C30: the synchronization status menu and compare_json_files agree: for
\* every pair of official and addon lists, addon lists with orphaned records
\* included, the percentage the menu shows is the sync_percentage that
\* compare_json_files computes over the same files.
C30_MenuAgreesWithCompare ==
    (out.op = "menu_synchronization_status" /\ out.val.shown) =>
        LET comparison == compare_json_files(DataSynchronizer, files)
        IN  /\ ~comparison.raised
            /\ "sync_percentage" \in DOMAIN comparison.val
            /\ comparison.val.sync_percentage = out.val.sync_percentage
====
